---- MODULE Spec2Model ----
(***************************************************************************)
(* Model of the IIS job-offer scraper: the DateParser utility              *)
(* (utils/date_parser.py), the per-site offer builders and filters, and    *)
(* the per-site deduplication steps, and the orchestration: the runner of  *)
(* main.py, the dispatch of iisempleos/main.py, the Playwright blocks and  *)
(* the page loop of IIS La Fe.                                             *)
(*                                                                         *)
(* Text is modelled by strings, read character by character with SubSeq.   *)
(* A date is a record [kind |-> "date", y, m, d]; Python's None is the     *)
(* record [kind |-> "none"]; an exception that leaves a function is        *)
(* [kind |-> "raise", exc |-> <type>].                                     *)
(***************************************************************************)
EXTENDS Integers, Sequences, FiniteSets, TLC

VARIABLES
    today,      \* date.today(), the system clock's calendar date
    text,       \* the text handed to a DateParser operation
    op,         \* the DateParser operation applied last
    res,        \* what that operation returned
    site,       \* the scraper routine that has run ("-" before any)
    page,       \* the raw candidates the fetched page holds
    ofertas,    \* the list the scraper returned to its caller
    results,    \* the orchestrator's mapping from site name to offer list
    calls,      \* the routines invoked so far, in order, with their outcome
    pc,         \* where the running orchestration routine stands
    browser,    \* the Playwright browser: "none", "open" or "closed"
    cls         \* the class attributes of DateParser every call reads

\* the state of the orchestration routines
orch == <<results, calls, pc, browser, cls>>

vars == <<today, text, op, res, site, page, ofertas, orch>>

\* F applied to the value of v: v is evaluated once, whatever F does with it
With(v, F(_)) == CHOOSE r \in { F(x) : x \in {v} } : TRUE

(***************************************************************************)
(* Characters and strings (Python str methods and re character classes).   *)
(***************************************************************************)
Ch(t, i) == With(i, LAMBDA k : IF k >= 1 /\ k <= Len(t) THEN SubSeq(t, k, k) ELSE "")

DigitChars == {"0", "1", "2", "3", "4", "5", "6", "7", "8", "9"}

UpperAlpha == "ABCDEFGHIJKLMNOPQRSTUVWXYZÁÉÍÓÚÑ"

LowerAlpha == "abcdefghijklmnopqrstuvwxyzáéíóúñ"

AlphaIdx == 1 .. Len(UpperAlpha)

SpaceChars == {" ", "\t", "\n"}

IsDigit(c) == c \in DigitChars

IsSpace(c) == c \in SpaceChars

IsUpper(c) == \E i \in AlphaIdx : Ch(UpperAlpha, i) = c

IsLowerLetter(c) == \E i \in AlphaIdx : Ch(LowerAlpha, i) = c

\* the regex class \w: letters, digits and the underscore
IsWord(c) == IsDigit(c) \/ IsUpper(c) \/ IsLowerLetter(c) \/ c = "_"

LowerCh(c) ==
    IF IsUpper(c)
    THEN Ch(LowerAlpha, CHOOSE i \in AlphaIdx : Ch(UpperAlpha, i) = c)
    ELSE c

RECURSIVE LowerFrom(_, _)
LowerFrom(t, i) ==
    IF i > Len(t) THEN "" ELSE With(Ch(t, i), LowerCh) \o LowerFrom(t, i + 1)

\* str.lower()
Lower(t) == With(t, LAMBDA s : LowerFrom(s, 1))

RECURSIVE SkipSpace(_, _)
\* index of the first character at or after i that is not whitespace
SkipSpace(t, i) ==
    IF i <= Len(t) /\ IsSpace(Ch(t, i)) THEN SkipSpace(t, i + 1) ELSE i

RECURSIVE SkipSpaceBack(_, _)
SkipSpaceBack(t, j) ==
    IF j >= 1 /\ IsSpace(Ch(t, j)) THEN SkipSpaceBack(t, j - 1) ELSE j

\* str.strip()
Strip(t) == With(t, LAMBDA s : SubSeq(s, SkipSpace(s, 1), SkipSpaceBack(s, Len(s))))

RECURSIVE SkipWord(_, _)
SkipWord(t, i) ==
    IF i <= Len(t) /\ With(Ch(t, i), IsWord) THEN SkipWord(t, i + 1) ELSE i

\* str.startswith(p)
StartsWith(t, p) ==
    With(t, LAMBDA s : Len(s) >= Len(p) /\ SubSeq(s, 1, Len(p)) = p)

\* str.endswith(p)
EndsWith(t, p) ==
    With(t, LAMBDA s : Len(s) >= Len(p) /\ SubSeq(s, Len(s) - Len(p) + 1, Len(s)) = p)

\* `p in t`
Contains(t, p) ==
    With(t, LAMBDA s : With(p, LAMBDA q :
        \E i \in 1 .. (Len(s) - Len(q) + 1) : SubSeq(s, i, i + Len(q) - 1) = q))

DigitVal(c) ==
    CASE c = "0" -> 0 [] c = "1" -> 1 [] c = "2" -> 2 [] c = "3" -> 3
      [] c = "4" -> 4 [] c = "5" -> 5 [] c = "6" -> 6 [] c = "7" -> 7
      [] c = "8" -> 8 [] c = "9" -> 9

RECURSIVE ToIntFrom(_, _, _)
ToIntFrom(t, i, acc) ==
    IF i > Len(t) THEN acc ELSE ToIntFrom(t, i + 1, 10 * acc + DigitVal(Ch(t, i)))

\* int(s) for a string of decimal digits
ToInt(t) == With(t, LAMBDA s : ToIntFrom(s, 1, 0))

\* t[a..b], empty when the range leaves the string
Sub(t, a, b) ==
    With(a, LAMBDA i : With(b, LAMBDA j :
        IF i >= 1 /\ j <= Len(t) /\ i <= j THEN SubSeq(t, i, j) ELSE ""))

(***************************************************************************)
(* The calendar: datetime.date(year, month, day).                          *)
(***************************************************************************)
None == [kind |-> "none"]

MkDate(y, m, d) == [kind |-> "date", y |-> y, m |-> m, d |-> d]

IsDate(r) == r.kind = "date"

IsLeap(y) == (y % 4 = 0 /\ y % 100 # 0) \/ y % 400 = 0

DaysInMonth(y, m) ==
    IF m = 2 THEN (IF IsLeap(y) THEN 29 ELSE 28)
    ELSE IF m \in {4, 6, 9, 11} THEN 30 ELSE 31

\* a constructor that takes every month to have 31 days
PyDateAnyMonth31(year, month, day) ==
    With(year, LAMBDA y : With(month, LAMBDA m : With(day, LAMBDA d :
        IF /\ y >= 1 /\ y <= 9999
           /\ m >= 1 /\ m <= 12
           /\ d >= 1 /\ d <= 31
        THEN MkDate(y, m, d)
        ELSE [kind |-> "exc", exc |-> "ValueError"])))

\* date(y, m, d): the date, or ValueError when the fields are out of range
PyDate(year, month, day) ==
    With(year, LAMBDA y : With(month, LAMBDA m : With(day, LAMBDA d :
        IF /\ y >= 1 /\ y <= 9999
           /\ m >= 1 /\ m <= 12
           /\ d >= 1 /\ d <= DaysInMonth(y, m)
        THEN MkDate(y, m, d)
        ELSE [kind |-> "exc", exc |-> "ValueError"])))

\* a < b on dates
DateLT(a, b) ==
    \/ a.y < b.y
    \/ a.y = b.y /\ a.m < b.m
    \/ a.y = b.y /\ a.m = b.m /\ a.d < b.d

\* a >= b on dates
DateGE(a, b) == ~DateLT(a, b)

(***************************************************************************)
(* DateParser.DATE_PATTERNS: the five regular expressions, matched at a    *)
(* position the way re does (greedy, leftmost).  A match is                *)
(* [s |-> first index, e |-> last index, g |-> the three groups].          *)
(***************************************************************************)
NoMatch == [s |-> 0]

NPatterns == 5

\* (\d{1,2}) at i: how many digits the group takes (0: no match)
Dig12(t, i) ==
    IF IsDigit(Ch(t, i)) THEN (IF IsDigit(Ch(t, i + 1)) THEN 2 ELSE 1) ELSE 0

\* (\d{4}) at i
Dig4(t, i) == \A k \in 0 .. 3 : IsDigit(Ch(t, i + k))

\* (\d{1,2})<sep>(\d{1,2})<sep>(\d{4}) at i
MatchDMY(t, i, sep) ==
    With(Dig12(t, i), LAMBDA la :
    With(i + la, LAMBDA j :
    With(Dig12(t, j + 1), LAMBDA lb :
    With(j + 1 + lb, LAMBDA k :
        IF la > 0 /\ Ch(t, j) = sep /\ lb > 0 /\ Ch(t, k) = sep /\ Dig4(t, k + 1)
        THEN [s |-> i, e |-> k + 4,
              g |-> <<Sub(t, i, j - 1), Sub(t, j + 1, k - 1), Sub(t, k + 1, k + 4)>>]
        ELSE NoMatch))))

\* (\d{1,2})\s+de\s+(\w+)\s+de\s+(\d{4}) at i, ignoring case
MatchDeMonthDe(t, i) ==
    With(i + Dig12(t, i), LAMBDA a :
    With(SkipSpace(t, a), LAMBDA b :
    With(SkipSpace(t, b + 2), LAMBDA d :
    With(SkipWord(t, d), LAMBDA e :
    With(SkipSpace(t, e), LAMBDA f :
    With(SkipSpace(t, f + 2), LAMBDA h :
        IF /\ a > i
           /\ b > a /\ Lower(Sub(t, b, b + 1)) = "de"
           /\ d > b + 2 /\ e > d
           /\ f > e /\ Lower(Sub(t, f, f + 1)) = "de"
           /\ h > f + 2 /\ Dig4(t, h)
        THEN [s |-> i, e |-> h + 3,
              g |-> <<Sub(t, i, a - 1), Sub(t, d, e - 1), Sub(t, h, h + 3)>>]
        ELSE NoMatch))))))

\* (\d{1,2})\s+(\w+)\s+(\d{4}) at i
MatchDayWordYear(t, i) ==
    With(i + Dig12(t, i), LAMBDA a :
    With(SkipSpace(t, a), LAMBDA b :
    With(SkipWord(t, b), LAMBDA e :
    With(SkipSpace(t, e), LAMBDA f :
        IF a > i /\ b > a /\ e > b /\ f > e /\ Dig4(t, f)
        THEN [s |-> i, e |-> f + 3,
              g |-> <<Sub(t, i, a - 1), Sub(t, b, e - 1), Sub(t, f, f + 3)>>]
        ELSE NoMatch))))

\* (\d{4})-(\d{1,2})-(\d{1,2}) at i
MatchYMD(t, i) ==
    With(Dig12(t, i + 5), LAMBDA lb :
    With(i + 5 + lb, LAMBDA j :
    With(Dig12(t, j + 1), LAMBDA lc :
        IF Dig4(t, i) /\ Ch(t, i + 4) = "-" /\ lb > 0 /\ Ch(t, j) = "-" /\ lc > 0
        THEN [s |-> i, e |-> j + lc,
              g |-> <<Sub(t, i, i + 3), Sub(t, i + 5, j - 1), Sub(t, j + 1, j + lc)>>]
        ELSE NoMatch)))

\* DATE_PATTERNS[p] matched at position i
MatchAt(p, t, i) ==
    CASE p = 1 -> MatchDMY(t, i, "/")
      [] p = 2 -> MatchDMY(t, i, "-")
      [] p = 3 -> MatchDeMonthDe(t, i)
      [] p = 4 -> MatchDayWordYear(t, i)
      [] p = 5 -> MatchYMD(t, i)

\* the leftmost match of pattern p that starts at or after i
SearchFrom(p, t, i) ==
    With({ j \in i .. Len(t) : MatchAt(p, t, j) # NoMatch }, LAMBDA starts :
        IF starts = {} THEN NoMatch
        ELSE MatchAt(p, t, CHOOSE j \in starts : \A k \in starts : j <= k))

\* re.search(DATE_PATTERNS[p], t, re.IGNORECASE)
Search(p, t) == With(t, LAMBDA s : SearchFrom(p, s, 1))

\* DateParser.MONTHS_ES
MONTHS_ES ==
    << <<"enero", 1>>, <<"febrero", 2>>, <<"marzo", 3>>, <<"abril", 4>>,
       <<"mayo", 5>>, <<"junio", 6>>, <<"julio", 7>>, <<"agosto", 8>>,
       <<"septiembre", 9>>, <<"octubre", 10>>, <<"noviembre", 11>>, <<"diciembre", 12>>,
       <<"ene", 1>>, <<"feb", 2>>, <<"mar", 3>>, <<"abr", 4>>,
       <<"may", 5>>, <<"jun", 6>>, <<"jul", 7>>, <<"ago", 8>>,
       <<"sep", 9>>, <<"oct", 10>>, <<"nov", 11>>, <<"dic", 12>> >>

\* the class attributes as the class statement leaves them: the patterns in
\* the order of DATE_PATTERNS and the month table
ClassAttrs == [DATE_PATTERNS |-> [p \in 1 .. NPatterns |-> p], MONTHS_ES |-> MONTHS_ES]

\* a lookup that knows the full month names only
MonthsGetFullNames(name) ==
    With(name, LAMBDA n :
        IF \E k \in 1 .. 12 : MONTHS_ES[k][1] = n
        THEN MONTHS_ES[CHOOSE k \in 1 .. 12 : MONTHS_ES[k][1] = n][2]
        ELSE 0)

\* MONTHS_ES.get(name): the month number, 0 standing for None
MonthsGet(name) ==
    With(name, LAMBDA n :
        IF \E k \in DOMAIN MONTHS_ES : MONTHS_ES[k][1] = n
        THEN MONTHS_ES[CHOOSE k \in DOMAIN MONTHS_ES : MONTHS_ES[k][1] = n][2]
        ELSE 0)

(***************************************************************************)
(* DateParser.parse_date                                                   *)
(***************************************************************************)
\* a construction that reads a numeric form month-first when its second
\* number is no month
BuildDateMonthFirst(p, m) ==
    CASE p \in {1, 2} ->
            IF ToInt(m.g[2]) > 12
            THEN PyDate(ToInt(m.g[3]), ToInt(m.g[1]), ToInt(m.g[2]))
            ELSE PyDate(ToInt(m.g[3]), ToInt(m.g[2]), ToInt(m.g[1]))
      [] p \in {3, 4} ->
            With(MonthsGet(Lower(m.g[2])), LAMBDA month :
                IF month # 0
                THEN PyDate(ToInt(m.g[3]), month, ToInt(m.g[1]))
                ELSE [kind |-> "fallthrough"])
      [] p = 5 -> PyDate(ToInt(m.g[1]), ToInt(m.g[2]), ToInt(m.g[3]))

\* the body of the try block for a match m of pattern p: the date, the
\* exception date() raises, or "fallthrough" when no branch returns
BuildDate(p, m) ==
    CASE p \in {1, 2} -> PyDate(ToInt(m.g[3]), ToInt(m.g[2]), ToInt(m.g[1]))
      [] p \in {3, 4} ->
            With(MonthsGet(Lower(m.g[2])), LAMBDA month :
                IF month # 0
                THEN PyDate(ToInt(m.g[3]), month, ToInt(m.g[1]))
                ELSE [kind |-> "fallthrough"])
      [] p = 5 -> PyDate(ToInt(m.g[1]), ToInt(m.g[2]), ToInt(m.g[3]))

\* one turn of the loop over DATE_PATTERNS
TryPattern(p, t) ==
    With(Search(p, t), LAMBDA m :
        IF m = NoMatch THEN [kind |-> "nomatch"] ELSE BuildDate(p, m))

\* `except ValueError: continue`
CaughtByParse(r) == r.exc = "ValueError"

\* a loop that gives up at the first pattern whose fields form no date
RECURSIVE PatternLoopStopOnError(_, _)
PatternLoopStopOnError(t, p) ==
    IF p > NPatterns THEN None
    ELSE With(TryPattern(p, t), LAMBDA r :
             IF r.kind = "date" THEN r
             ELSE IF r.kind \in {"exc", "fallthrough"} THEN None
             ELSE PatternLoopStopOnError(t, p + 1))

RECURSIVE PatternLoop(_, _)
\* `for pattern in cls.DATE_PATTERNS`, from pattern p on
PatternLoop(t, p) ==
    IF p > NPatterns THEN None
    ELSE With(TryPattern(p, t), LAMBDA r :
             IF r.kind = "date" THEN r
             ELSE IF r.kind = "exc" /\ ~CaughtByParse(r)
                  THEN [kind |-> "raise", exc |-> r.exc]
                  ELSE PatternLoop(t, p + 1))

\* a parser that prefers the match lying first in the text
parse_date_leftmost(date_text) ==
    With(Lower(Strip(date_text)), LAMBDA t :
    With([p \in 1 .. NPatterns |-> Search(p, t)], LAMBDA at :
    With({ p \in 1 .. NPatterns : TryPattern(p, t).kind = "date" }, LAMBDA Good :
        IF date_text = "" \/ Good = {} THEN None
        ELSE TryPattern(CHOOSE p \in Good :
                            \A q \in Good : \/ at[p].s < at[q].s
                                             \/ (at[p].s = at[q].s /\ p <= q), t))))

parse_date(date_text) ==
    With(date_text, LAMBDA dt :
        IF dt = "" THEN None
        ELSE With(Lower(Strip(dt)), LAMBDA t : PatternLoop(t, 1)))

(***************************************************************************)
(* DateParser.is_date_open, format_date_for_display                        *)
(***************************************************************************)
Bool(b) == [kind |-> "bool", v |-> b]

\* a comparison that treats a deadline of today as closed
is_date_open_strict(date_text, tdy) ==
    With(parse_date(date_text), LAMBDA parsed_date :
        IF parsed_date.kind = "raise" THEN parsed_date
        ELSE IF parsed_date = None THEN Bool(FALSE)
        ELSE Bool(DateLT(tdy, parsed_date)))

\* what is_date_open returns (an exception of parse_date would pass through)
is_date_open(date_text, tdy) ==
    With(parse_date(date_text), LAMBDA parsed_date :
        IF parsed_date.kind = "raise" THEN parsed_date
        ELSE IF parsed_date = None THEN Bool(FALSE)
        ELSE Bool(DateGE(parsed_date, tdy)))

DigitStr(n) == Ch("0123456789", n + 1)

RECURSIVE IntToStr(_)
IntToStr(n) == IF n < 10 THEN DigitStr(n) ELSE IntToStr(n \div 10) \o DigitStr(n % 10)

\* %d and %m: two digits, zero-padded
Pad2(n) == IF n < 10 THEN "0" \o DigitStr(n) ELSE IntToStr(n)

\* date_obj.strftime("%d/%m/%Y") where the C library writes %Y without
\* leading zeros (glibc): the year 999 is written 999
format_date_for_display(date_obj) ==
    With(date_obj, LAMBDA d : Pad2(d.d) \o "/" \o Pad2(d.m) \o "/" \o IntToStr(d.y))

\* %Y where the C library writes four digits
Pad4(n) ==
    IF n < 10 THEN "000" \o DigitStr(n)
    ELSE IF n < 100 THEN "00" \o IntToStr(n)
    ELSE IF n < 1000 THEN "0" \o IntToStr(n) ELSE IntToStr(n)

\* date_obj.strftime("%d/%m/%Y") where %Y is written with four digits
format_date_for_display_padded_year(date_obj) ==
    With(date_obj, LAMBDA d : Pad2(d.d) \o "/" \o Pad2(d.m) \o "/" \o Pad4(d.y))

(***************************************************************************)
(* DateParser.extract_dates_from_text                                      *)
(***************************************************************************)
\* a scan that stops at the first match of the pattern
FindIterFirstOnly(p, t, i) ==
    With(SearchFrom(p, t, i), LAMBDA m : IF m = NoMatch THEN <<>> ELSE <<m>>)

RECURSIVE FindIterAfterFirst(_, _, _)
\* an iteration that starts behind the first match
FindIterAfterFirst(p, t, i) ==
    With(SearchFrom(p, t, i), LAMBDA m :
        IF m = NoMatch THEN <<>> ELSE FindIterFirstOnly(p, t, m.e + 1))

RECURSIVE FindIter(_, _, _)
\* re.finditer(DATE_PATTERNS[p], t, re.IGNORECASE): the matches from i on
FindIter(p, t, i) ==
    With(SearchFrom(p, t, i), LAMBDA m :
        IF m = NoMatch THEN <<>> ELSE <<m>> \o FindIter(p, t, m.e + 1))

\* the (date_text, parsed_date) pairs one pattern contributes
DatesOfPattern(p, t) ==
    With(FindIter(p, t, 1), LAMBDA ms :
    With([k \in DOMAIN ms |->
              With(Sub(t, ms[k].s, ms[k].e),
                   LAMBDA date_text : <<date_text, parse_date(date_text)>>)],
         LAMBDA pairs : SelectSeq(pairs, LAMBDA x : IsDate(x[2]))))

RECURSIVE ExtractFromLastPatternFirst(_, _)
\* a loop that puts the matches of the later patterns first
ExtractFromLastPatternFirst(t, p) ==
    IF p > NPatterns THEN <<>>
    ELSE ExtractFromLastPatternFirst(t, p + 1) \o DatesOfPattern(p, t)

RECURSIVE ExtractFrom(_, _)
\* `for pattern in cls.DATE_PATTERNS`, from pattern p on
ExtractFrom(t, p) ==
    IF p > NPatterns THEN <<>> ELSE DatesOfPattern(p, t) \o ExtractFrom(t, p + 1)

extract_dates_from_text(t) == With(t, LAMBDA s : ExtractFrom(s, 1))

RECURSIVE MaxByDate(_, _, _)
\* max(dates, key=lambda x: x[1]) from index i on: the first pair with the greatest date
MaxByDate(dates, i, best) ==
    IF i > Len(dates) THEN best
    ELSE With(IF DateLT(best[2], dates[i][2]) THEN dates[i] ELSE best,
              LAMBDA b : MaxByDate(dates, i + 1, b))

RECURSIVE MinByDate(_, _, _)
\* sorted(dates, key=lambda x: x[1])[0]: the first pair with the least date
MinByDate(dates, i, best) ==
    IF i > Len(dates) THEN best
    ELSE With(IF DateLT(dates[i][2], best[2]) THEN dates[i] ELSE best,
              LAMBDA b : MinByDate(dates, i + 1, b))

\* sorted(dates, key=...)[-1]: the last pair with the greatest date
RECURSIVE LastMaxByDate(_, _, _)
LastMaxByDate(dates, i, best) ==
    IF i > Len(dates) THEN best
    ELSE With(IF DateLT(dates[i][2], best[2]) THEN best ELSE dates[i],
              LAMBDA b : LastMaxByDate(dates, i + 1, b))

(***************************************************************************)
(* DateParser.get_days_until_deadline                                      *)
(***************************************************************************)
\* the days of the years before year y
DaysBeforeYear(y) ==
    With(y - 1, LAMBDA n : n * 365 + n \div 4 - n \div 100 + n \div 400)

RECURSIVE DaysBeforeMonth(_, _)
\* the days of year y before the first of month m
DaysBeforeMonth(y, m) ==
    IF m <= 1 THEN 0 ELSE DaysBeforeMonth(y, m - 1) + DaysInMonth(y, m - 1)

\* date.toordinal(): the number of the day, 0001-01-01 being day 1
ToOrdinal(dt) ==
    With(dt, LAMBDA x : DaysBeforeYear(x.y) + DaysBeforeMonth(x.y, x.m) + x.d)

\* an int result
PyInt(n) == [kind |-> "int", v |-> n]

\* a difference that reports an expired deadline as 0 days
get_days_until_deadline_clamped(date_text, tdy) ==
    With(parse_date(date_text), LAMBDA parsed_date :
        IF parsed_date.kind = "raise" THEN parsed_date
        ELSE IF parsed_date = None THEN None
        ELSE With(ToOrdinal(parsed_date) - ToOrdinal(tdy), LAMBDA days :
                 PyInt(IF days < 0 THEN 0 ELSE days)))

\* (parsed_date - today).days, or None
get_days_until_deadline(date_text, tdy) ==
    With(parse_date(date_text), LAMBDA parsed_date :
        IF parsed_date.kind = "raise" THEN parsed_date
        ELSE IF parsed_date = None THEN None
        ELSE PyInt(ToOrdinal(parsed_date) - ToOrdinal(tdy)))

(***************************************************************************)
(* What the scrapers read from a page and what they return.                *)
(* A candidate is one row or element of the page: its tag, the text of its *)
(* title cell or heading, its two date cells, its status cell, its whole   *)
(* text, the href of its first link and its reference cell.  An offer is   *)
(* the dictionary a scraper returns.                                       *)
(***************************************************************************)
Cand(tag, ref, titulo, f1, f2, estado, texto, href) ==
    [tag |-> tag, ref |-> ref, titulo |-> titulo, f1 |-> f1, f2 |-> f2,
     estado |-> estado, texto |-> texto, href |-> href]

Oferta(iis, titulo, fecha_inicio, fecha_limite, estado, enlace, referencia) ==
    [kind |-> "oferta", iis |-> iis, titulo |-> titulo, fecha_inicio |-> fecha_inicio,
     fecha_limite |-> fecha_limite, estado |-> estado, enlace |-> enlace,
     referencia |-> referencia]

\* any(word in t for word in words)
AnyIn(words, t) == With(t, LAMBDA s : \E w \in words : Contains(s, w))

\* `not DateParser.is_date_open(s)` as the scrapers use it
NotOpen(s, tdy) == ~is_date_open(s, tdy).v

RECURSIVE Replace(_, _, _)
\* str.replace(a, b)
Replace(t, a, b) ==
    With(t, LAMBDA s :
        IF Len(s) < Len(a) THEN s
        ELSE IF StartsWith(s, a) THEN b \o Replace(SubSeq(s, Len(a) + 1, Len(s)), a, b)
        ELSE Ch(s, 1) \o Replace(SubSeq(s, 2, Len(s)), a, b))

RECURSIVE LastSlash(_, _)
LastSlash(t, i) == IF i < 1 \/ Ch(t, i) = "/" THEN i ELSE LastSlash(t, i - 1)

\* t.split('/')[-1]
AfterLastSlash(t) == With(t, LAMBDA s : SubSeq(s, LastSlash(s, Len(s)) + 1, Len(s)))

\* text[:n] + '...' if len(text) > n else text
Truncate(t, n) == With(t, LAMBDA s : IF Len(s) > n THEN SubSeq(s, 1, n) \o "..." ELSE s)

\* urljoin(base, href) for a base that is a site root and an href that is
\* absolute, rooted ("/x") or relative ("x")
urljoin(base, href) ==
    With(href, LAMBDA h :
        IF h = "" THEN base
        ELSE IF StartsWith(h, "http") THEN h
        ELSE IF StartsWith(h, "/") THEN base \o h
        ELSE base \o "/" \o h)

\* the offers the parse routine F yields for the candidates, in page order
ParseAll(F(_), cands) ==
    With(cands, LAMBDA cs :
        SelectSeq([k \in DOMAIN cs |-> F(cs[k])], LAMBDA r : r # None))

RECURSIVE UniqueLoopLastSeen(_, _, _, _)
\* a loop that remembers only the key it saw last
UniqueLoopLastSeen(ofs, keys, i, seen) ==
    IF i > Len(ofs) THEN <<>>
    ELSE IF keys[i] \in seen THEN UniqueLoopLastSeen(ofs, keys, i + 1, {keys[i]})
    ELSE <<ofs[i]>> \o UniqueLoopLastSeen(ofs, keys, i + 1, {keys[i]})

RECURSIVE UniqueLoopKeepLast(_, _, _, _)
\* a deduplication loop that keeps the last offer of each key instead
UniqueLoopKeepLast(ofs, keys, i, seen) ==
    IF i > Len(ofs) THEN <<>>
    ELSE IF \E j \in (i + 1) .. Len(ofs) : keys[j] = keys[i]
         THEN UniqueLoopKeepLast(ofs, keys, i + 1, seen)
    ELSE <<ofs[i]>> \o UniqueLoopKeepLast(ofs, keys, i + 1, seen)

RECURSIVE UniqueLoop(_, _, _, _)
\* the deduplication loop: seen keys, first offer of each key appended
UniqueLoop(ofs, keys, i, seen) ==
    IF i > Len(ofs) THEN <<>>
    ELSE IF keys[i] \in seen THEN UniqueLoop(ofs, keys, i + 1, seen)
    ELSE <<ofs[i]>> \o UniqueLoop(ofs, keys, i + 1, seen \cup {keys[i]})

Unique(Key(_), ofs) ==
    With(ofs, LAMBDA l :
    With([k \in DOMAIN l |-> Key(l[k])], LAMBDA keys : UniqueLoop(l, keys, 1, {})))

Rows(pg) == SelectSeq(pg, LAMBDA c : c.tag = "tr")

Elements(pg) == SelectSeq(pg, LAMBDA c : c.tag # "tr")

(***************************************************************************)
(* FimabisScraper (src/scrapers/fimabis.py)                                *)
(***************************************************************************)
Fimabis_extract_oferta_from_row(c, tdy) ==
    With(Strip(c.titulo), LAMBDA titulo :
    With(IF c.href = "" THEN "" ELSE urljoin("https://www.rfgi.es", c.href), LAMBDA enlace :
    With(parse_date(Strip(c.f1)), LAMBDA fecha_inicio :
    With(parse_date(Strip(c.f2)), LAMBDA fecha_fin :
    With(IF IsDate(fecha_inicio) THEN format_date_for_display(fecha_inicio) ELSE "", LAMBDA fi :
    With(IF IsDate(fecha_fin) THEN format_date_for_display(fecha_fin) ELSE "", LAMBDA fl :
        IF fl # "" /\ NotOpen(fl, tdy) THEN None
        ELSE IF Len(titulo) < 5 THEN None
        ELSE IF AnyIn({"título", "title", "cabecera", "header", "f.inicio", "f.fin"},
                      Lower(titulo)) THEN None
        ELSE Oferta("FIMABIS", titulo, fi, fl, "Abierta", enlace, "")))))))

Fimabis_extract_oferta_info(c, tdy) ==
    With(IF Strip(c.titulo) # "" THEN Strip(c.titulo)
         ELSE Truncate(Strip(c.texto), 100), LAMBDA titulo :
    With(IF c.href = "" THEN "" ELSE urljoin("https://www.rfgi.es", c.href), LAMBDA enlace :
    With(extract_dates_from_text(c.texto), LAMBDA dates_found :
    With(IF dates_found # <<>>
         THEN format_date_for_display(MaxByDate(dates_found, 1, dates_found[1])[2])
         ELSE "", LAMBDA fl :
    With(Lower(c.texto), LAMBDA text_lower :
    With(IF AnyIn({"abierta", "abierto", "activa", "activo"}, text_lower)
         THEN "Abierta"
         ELSE IF AnyIn({"cerrada", "cerrado", "finalizada", "finalizado"}, text_lower)
         THEN "Cerrada" ELSE "", LAMBDA estado :
        IF estado = "Cerrada" THEN None
        ELSE IF fl # "" /\ NotOpen(fl, tdy) THEN None
        ELSE IF Len(titulo) < 5 THEN None
        ELSE IF AnyIn({"título", "title", "cabecera", "header"}, Lower(titulo)) THEN None
        ELSE Oferta("FIMABIS", titulo, "", fl, estado, enlace, "")))))))

\* a key that also looks at the link
Fimabis_key_with_link(o) == <<Strip(Lower(o.titulo)), o.enlace>>

Fimabis_key(o) == Strip(Lower(o.titulo))

Fimabis_remove_duplicates(ofs) == Unique(Fimabis_key, ofs)

Fimabis_scrape(pg, tdy) ==
    With(ParseAll(LAMBDA c : Fimabis_extract_oferta_from_row(c, tdy), Rows(pg)), LAMBDA table_ofertas :
    With(IF table_ofertas # <<>> THEN table_ofertas
         ELSE ParseAll(LAMBDA c : Fimabis_extract_oferta_info(c, tdy), Elements(pg)), LAMBDA all :
        Fimabis_remove_duplicates(all)))

(***************************************************************************)
(* IisPrincesaScraper (src/scrapers/iis_princesa.py)                       *)
(***************************************************************************)
IisPrincesa_extract_oferta_info(c) ==
    With(IF StartsWith(c.href, "http") THEN c.href
         ELSE "https://www.iis-princesa.org" \o c.href, LAMBDA enlace :
    With(Strip(c.texto), LAMBDA context_text :
    With(Strip(Replace(context_text, "Descargar oferta", "")), LAMBDA clean_text :
    With(IF Len(context_text) > 20 /\ clean_text # ""
         THEN Truncate(clean_text, 100) ELSE "", LAMBDA from_context :
    With(AfterLastSlash(enlace), LAMBDA filename :
    With(IF from_context # "" THEN from_context
         ELSE IF EndsWith(filename, ".pdf")
         THEN Replace(Replace(Replace(filename, ".pdf", ""), "_", " "), "-", " ")
         ELSE "", LAMBDA titulo :
    With(IF Contains(enlace, "2025") THEN "30/10/2025" ELSE "", LAMBDA fl :
        Oferta("IIS Princesa", titulo, "", fl, "", enlace, ""))))))))

IisPrincesa_is_valid_oferta(o) ==
    /\ ~(o.titulo = "" \/ Len(o.titulo) < 5)
    /\ ~(o.enlace = "" \/ ~StartsWith(o.enlace, "http"))
    /\ EndsWith(o.enlace, ".pdf")

\* the elements are the "descargar" links of the section of available offers
IisPrincesa_scrape(pg) ==
    SelectSeq([k \in DOMAIN pg |-> IisPrincesa_extract_oferta_info(pg[k])],
              IisPrincesa_is_valid_oferta)

(***************************************************************************)
(* IisLaFeScraper (src/scrapers/iis_la_fe.py)                              *)
(***************************************************************************)
IisLaFe_extract_oferta_info(c) ==
    With(IF StartsWith(c.href, "http") THEN c.href
         ELSE "https://www.iislafe.es" \o c.href, LAMBDA enlace :
    With(Strip(c.titulo), LAMBDA link_text :
    With(IF Len(link_text) > 10 THEN link_text ELSE "", LAMBDA titulo :
    With(extract_dates_from_text(c.texto), LAMBDA dates_found :
    With(IF dates_found # <<>>
         THEN format_date_for_display(MaxByDate(dates_found, 1, dates_found[1])[2])
         ELSE "", LAMBDA fl :
        Oferta("IIS La Fe", titulo, "", fl, "", enlace, ""))))))

\* a validity check with the minimum title length of the other sites
IisLaFe_is_valid_oferta_min5(o) ==
    /\ ~(o.titulo = "" \/ Len(o.titulo) < 5)
    /\ ~(o.enlace = "" \/ ~StartsWith(o.enlace, "http"))
    /\ Contains(o.enlace, "/es/talento/empleo/")

IisLaFe_is_valid_oferta(o) ==
    /\ ~(o.titulo = "" \/ Len(o.titulo) < 15)
    /\ ~(o.enlace = "" \/ ~StartsWith(o.enlace, "http"))
    /\ Contains(o.enlace, "/es/talento/empleo/")

\* one page: the items with an open status span and an offer link
IisLaFe_scrape_page(pg) ==
    With(SelectSeq(pg, LAMBDA c :
             /\ Contains(Lower(c.estado), "abierta")
             /\ c.href # ""
             /\ AnyIn({"contratación", "técnico", "investigador", "personal"},
                      Lower(c.titulo))), LAMBDA items :
        SelectSeq([k \in DOMAIN items |-> IisLaFe_extract_oferta_info(items[k])],
                  IisLaFe_is_valid_oferta))

(***************************************************************************)
(* PuertaHierroScraper (src/scrapers/puerta_hierro.py): rows of seven      *)
(* cells, Referencia | Titulo | Convocatoria | F.Inicio | F.Fin | Estado.  *)
(***************************************************************************)
PuertaHierro_parse_row(c, tdy) ==
    With(Strip(c.titulo), LAMBDA titulo :
    With(parse_date(Strip(c.f1)), LAMBDA fecha_inicio :
    With(parse_date(Strip(c.f2)), LAMBDA fecha_fin :
    With(IF IsDate(fecha_inicio) THEN format_date_for_display(fecha_inicio) ELSE "", LAMBDA fi :
    With(IF IsDate(fecha_fin) THEN format_date_for_display(fecha_fin) ELSE "", LAMBDA fl :
    With(Strip(c.estado), LAMBDA estado :
    With(IF c.href = "" THEN ""
         ELSE urljoin("https://investigacionpuertadehierro.com", c.href), LAMBDA enlace :
        IF Lower(estado) \notin {"abierta", "abierto", "open"} THEN None
        ELSE IF fl # "" /\ NotOpen(fl, tdy) THEN None
        ELSE IF Len(titulo) < 5 THEN None
        ELSE IF AnyIn({"ayudas para la intensificación",
                       "intensificación de la actividad investigadora", "ayudas 2025",
                       "convocatoria de ayudas", "intensificación investigadora",
                       "profesionales sanitarios", "becas", "subvenciones"},
                      Lower(titulo)) THEN None
        ELSE Oferta("Puerta_Hierro", titulo, fi, fl, estado, enlace, Strip(c.ref)))))))))

PuertaHierro_key(o) == <<Lower(Strip(o.titulo)), o.referencia>>

PuertaHierro_scrape(pg, tdy) ==
    Unique(PuertaHierro_key, ParseAll(LAMBDA c : PuertaHierro_parse_row(c, tdy), Rows(pg)))

(***************************************************************************)
(* IbisSevillaScraper (src/scrapers/ibis_sevilla.py): one detail page per  *)
(* candidate link, each link visited once.                                 *)
(***************************************************************************)
IbisSevilla_parse_detail(c, tdy) ==
    With(urljoin("https://www.ibis-sevilla.es", c.href), LAMBDA url :
    With(Strip(c.texto), LAMBDA body :
    With(IF Strip(c.titulo) # "" THEN Strip(c.titulo)
         ELSE IF Len(body) > 120 THEN SubSeq(body, 1, 120) ELSE body, LAMBDA titulo :
    With(extract_dates_from_text(body), LAMBDA dates :
    With(IF dates # <<>>
         THEN format_date_for_display(MinByDate(dates, 1, dates[1])[2]) ELSE "", LAMBDA fi :
    With(IF dates # <<>>
         THEN format_date_for_display(LastMaxByDate(dates, 1, dates[1])[2]) ELSE "", LAMBDA fl :
    With(Lower(body), LAMBDA low :
    With(IF AnyIn({"abierta", "publicada", "vigente"}, low) THEN "Abierta"
         ELSE IF AnyIn({"cerrada", "finalizada"}, low) THEN "Cerrada" ELSE "", LAMBDA estado :
        IF estado = "Cerrada" THEN None
        ELSE IF fl # "" /\ NotOpen(fl, tdy) THEN None
        ELSE IF Len(titulo) >= 5 THEN Oferta("IBIS_Sevilla", titulo, fi, fl, estado, url, "")
        ELSE None))))))))

IbisSevilla_key(o) == <<Lower(Strip(o.titulo)), o.enlace>>

\* candidate_links holds each absolute url once, in page order
IbisSevilla_scrape(pg, tdy) ==
    With(SelectSeq(pg, LAMBDA c : c.href # ""), LAMBDA linked :
    With(
            UniqueLoop(linked,
      [k \in DOMAIN linked |-> urljoin("https://www.ibis-sevilla.es", linked[k].href)],
      1, {}), LAMBDA candidate_links :
        Unique(IbisSevilla_key,
               ParseAll(LAMBDA c : IbisSevilla_parse_detail(c, tdy), candidate_links))))

(***************************************************************************)
(* IisgmScraper (src/scrapers/iisgm.py): each candidate is a link in a div *)
(* with one status paragraph.                                              *)
(***************************************************************************)
Iisgm_extract_oferta_info(c) ==
    With(IF StartsWith(c.href, "http") THEN c.href
         ELSE "https://www.iisgm.com" \o c.href, LAMBDA enlace :
    With(Strip(c.titulo), LAMBDA link_text :
    With(IF Len(link_text) > 5 THEN link_text
         ELSE IF Len(link_text) > 10 THEN Truncate(link_text, 100) ELSE "", LAMBDA titulo :
        Oferta("IISGM", titulo, "", "", "", enlace, ""))))

Iisgm_is_valid_oferta(o) ==
    /\ ~(o.titulo = "" \/ Len(o.titulo) < 5)
    /\ ~(o.enlace = "" \/ ~StartsWith(o.enlace, "http"))
    /\ Contains(o.enlace, "/ofertas-de-empleo/")

Iisgm_key(o) == o.enlace

Iisgm_scrape(pg) ==
    With(SelectSeq(pg, LAMBDA c :
             c.href # "" /\ Contains(Lower(Strip(c.estado)), "abierta")), LAMBDA abiertas :
        Unique(Iisgm_key,
               SelectSeq([k \in DOMAIN abiertas |-> Iisgm_extract_oferta_info(abiertas[k])],
                         Iisgm_is_valid_oferta)))

(***************************************************************************)
(* IbsGranadaScraper (src/iisempleos/scrapers/ibs_granada.py): articles    *)
(* with a status span (its class in estado) and a range "f1 - f2".         *)
(***************************************************************************)
IbsGranada_parse_item(c, tdy) ==
    With(Strip(c.titulo), LAMBDA titulo :
    With(IF c.href = "" THEN "" ELSE urljoin("https://www.ibsgranada.es", c.href), LAMBDA link :
    With(Strip(Replace(c.f1, ".", "")), LAMBDA p1 :
    With(Strip(Replace(c.f2, ".", "")), LAMBDA p2 :
    With(~Contains(c.f1, "-") /\ ~Contains(c.f2, "-"), LAMBDA two :
    With(IF two THEN parse_date(p1) ELSE None, LAMBDA d1 :
    With(IF two THEN parse_date(p2) ELSE None, LAMBDA d2 :
    With(IF IsDate(d1) THEN format_date_for_display(d1) ELSE "", LAMBDA fecha_ini :
    With(IF IsDate(d2) THEN format_date_for_display(d2) ELSE "", LAMBDA fecha_fin :
        IF fecha_fin # "" /\ NotOpen(fecha_fin, tdy) THEN None
        ELSE IF Len(titulo) >= 3
        THEN Oferta("IBS_Granada", titulo, fecha_ini, fecha_fin, "Abierta", link, "")
        ELSE None)))))))))

IbsGranada_key(o) == <<Lower(Strip(o.titulo)), Lower(Strip(o.enlace))>>

IbsGranada_scrape(pg, tdy) ==
    With(SelectSeq(pg, LAMBDA c : c.estado = "open"), LAMBDA items :
        Unique(IbsGranada_key, ParseAll(LAMBDA c : IbsGranada_parse_item(c, tdy), items)))

(***************************************************************************)
(* IdibapsScraper (src/iisempleos/scrapers/idibaps.py): table rows         *)
(***************************************************************************)
Idibaps_parse_row(c, tdy) ==
    With(<<Strip(c.ref), Strip(c.titulo), Strip(c.f1), Strip(c.f2), Strip(c.estado)>>, LAMBDA cells :
    With(SelectSeq(SubSeq(cells, 1, 3), LAMBDA x : Len(x) > 10), LAMBDA long :
    With(IF long # <<>> THEN long[1] ELSE "", LAMBDA titulo :
    With(IF c.href = "" THEN ""
         ELSE urljoin("https://www.clinicbarcelona.org", c.href), LAMBDA enlace :
    With(SelectSeq(cells, LAMBDA x : x # ""), LAMBDA filled :
    With(IF filled = <<>> THEN ""
         ELSE " " \o filled[1]
              \o (IF Len(filled) > 1 THEN " " \o filled[2] ELSE "")
              \o (IF Len(filled) > 2 THEN " " \o filled[3] ELSE "")
              \o (IF Len(filled) > 3 THEN " " \o filled[4] ELSE "")
              \o (IF Len(filled) > 4 THEN " " \o filled[5] ELSE ""), LAMBDA all_text :
    With(extract_dates_from_text(all_text), LAMBDA dates :
    With(IF dates # <<>>
         THEN format_date_for_display(MinByDate(dates, 1, dates[1])[2]) ELSE "", LAMBDA fi :
    With(IF dates # <<>>
         THEN format_date_for_display(LastMaxByDate(dates, 1, dates[1])[2]) ELSE "", LAMBDA fl :
        IF dates = <<>> THEN None
        ELSE IF fl # "" /\ NotOpen(fl, tdy) THEN None
        ELSE IF Len(titulo) < 5 THEN None
        ELSE Oferta("IDIBAPS", titulo, fi, fl, "Abierta", enlace, ""))))))))))

Idibaps_key(o) == <<Lower(Strip(o.titulo)), o.enlace>>

Idibaps_scrape_requests(pg, tdy) ==
    Unique(Idibaps_key, ParseAll(LAMBDA c : Idibaps_parse_row(c, tdy), Rows(pg)))

(***************************************************************************)
(* BiobizkaiaScraper (src/scrapers/biobizkaia.py)                          *)
(***************************************************************************)
Biobizkaia_enlace(href) ==
    IF StartsWith(href, "/") THEN "https://gestiononline.bioef.eus" \o href
    ELSE IF StartsWith(href, "http") THEN href ELSE ""

Biobizkaia_extract_oferta_from_row(c) ==
    Oferta("Biobizkaia", Strip(c.titulo), Strip(c.f1), Strip(c.f2), Strip(c.estado),
           Biobizkaia_enlace(c.href), "")

\* a (text, date) tuple of extract_dates_from_text stored in a field of an
\* offer, written the way Python shows it
TupleRepr(x) ==
    "('" \o x[1] \o "', datetime.date(" \o IntToStr(x[2].y) \o ", "
        \o IntToStr(x[2].m) \o ", " \o IntToStr(x[2].d) \o "))"

\* the offer of a generic element and the fields of it that hold a
\* (text, date) pair of extract_dates_from_text instead of a string
Biobizkaia_extract_oferta_info(c) ==
    With(extract_dates_from_text(c.texto), LAMBDA fechas :
    With(IF Len(fechas) > 0 THEN TupleRepr(fechas[1]) ELSE "", LAMBDA fecha_inicio :
    With(IF Len(fechas) > 1 THEN TupleRepr(fechas[2]) ELSE "31/12/2025", LAMBDA fecha_limite :
        [o |-> Oferta("Biobizkaia", Strip(c.titulo), fecha_inicio, fecha_limite, "",
                      Biobizkaia_enlace(c.href), ""),
         pairs |-> (IF Len(fechas) > 0 THEN {"fecha_inicio"} ELSE {})
                   \cup (IF Len(fechas) > 1 THEN {"fecha_limite"} ELSE {})])))

\* TRUE / FALSE, or "raise" when is_date_open is handed a pair
\* a validity check that compares the status without lowercasing it
Biobizkaia_is_valid_oferta_case_sensitive(o, pairs, tdy) ==
    IF o.titulo = "" \/ Len(o.titulo) < 5 THEN "false"
    ELSE IF AnyIn({"menu", "navegación", "footer", "header", "cookie", "política",
                   "aviso legal", "título"}, Lower(o.titulo)) THEN "false"
    ELSE IF o.estado # "" /\ (\/ Contains(o.estado, "cerrada")
                              \/ Contains(o.estado, "finalizada")) THEN "false"
    ELSE IF "fecha_limite" \in pairs THEN "raise"
    ELSE IF o.fecha_limite # "" /\ NotOpen(o.fecha_limite, tdy) THEN "false"
    ELSE "true"

Biobizkaia_is_valid_oferta(o, pairs, tdy) ==
    IF o.titulo = "" \/ Len(o.titulo) < 5 THEN "false"
    ELSE IF AnyIn({"menu", "navegación", "footer", "header", "cookie", "política",
                   "aviso legal", "título"}, Lower(o.titulo)) THEN "false"
    ELSE IF o.estado # "" /\ (\/ Contains(Lower(o.estado), "cerrada")
                              \/ Contains(Lower(o.estado), "finalizada")) THEN "false"
    ELSE IF "fecha_limite" \in pairs THEN "raise"
    ELSE IF o.fecha_limite # "" /\ NotOpen(o.fecha_limite, tdy) THEN "false"
    ELSE "true"

\* scrape: the rows of the table; with no offer from them, the generic
\* elements; any exception ends the scrape with an empty list
Biobizkaia_scrape(pg, tdy) ==
    With([k \in DOMAIN Rows(pg) |-> Biobizkaia_extract_oferta_from_row(Rows(pg)[k])], LAMBDA rows :
    With(SelectSeq(rows, LAMBDA o : Biobizkaia_is_valid_oferta(o, {}, tdy) = "true"), LAMBDA from_rows :
    With([k \in DOMAIN Elements(pg) |-> Biobizkaia_extract_oferta_info(Elements(pg)[k])], LAMBDA infos :
    With([k \in DOMAIN infos |->
             Biobizkaia_is_valid_oferta(infos[k].o, infos[k].pairs, tdy)], LAMBDA verdicts :
    With(SelectSeq(infos, LAMBDA x : Biobizkaia_is_valid_oferta(x.o, x.pairs, tdy) = "true"), LAMBDA kept :
        IF from_rows # <<>> THEN from_rows
        ELSE IF \E k \in DOMAIN verdicts : verdicts[k] = "raise" THEN <<>>
        ELSE [k \in DOMAIN kept |-> kept[k].o])))))

(***************************************************************************)
(* IdisSantiagoScraper (src/iisempleos/scrapers/idis_santiago.py): a block *)
(* is a title line followed by a line of details.                          *)
(***************************************************************************)
\* (\d{2}/\d{2}/\d{4}) at i
MatchDD(t, i) ==
    /\ IsDigit(Ch(t, i)) /\ IsDigit(Ch(t, i + 1)) /\ Ch(t, i + 2) = "/"
    /\ IsDigit(Ch(t, i + 3)) /\ IsDigit(Ch(t, i + 4)) /\ Ch(t, i + 5) = "/"
    /\ Dig4(t, i + 6)

RECURSIVE FindAllDD(_, _)
\* re.findall(r'(\d{2}/\d{2}/\d{4})', t) from i on
FindAllDD(t, i) ==
    With({ j \in i .. Len(t) : MatchDD(t, j) }, LAMBDA starts :
        IF starts = {} THEN <<>>
        ELSE With(CHOOSE j \in starts : \A k \in starts : j <= k, LAMBDA j :
                 <<SubSeq(t, j, j + 9)>> \o FindAllDD(t, j + 10)))

IdisSantiago_parse_offer_block(c, tdy) ==
    With(c.titulo \o "\n" \o c.texto, LAMBDA block :
    With(FindAllDD(block, 1), LAMBDA fechas :
    With(IF Len(fechas) >= 2 THEN parse_date(fechas[1]) ELSE None, LAMBDA d1 :
    With(IF Len(fechas) >= 2 THEN parse_date(fechas[2]) ELSE None, LAMBDA d2 :
    \* format_date_for_display(None) raises inside the try block
    With(Len(fechas) >= 2 /\ (~IsDate(d1) \/ ~IsDate(d2)), LAMBDA failed :
    With(IF Len(fechas) >= 2 /\ IsDate(d1) THEN format_date_for_display(d1) ELSE "", LAMBDA fi :
    With(IF Len(fechas) >= 2 /\ IsDate(d2) THEN format_date_for_display(d2) ELSE "", LAMBDA fl :
    With(IF Contains(block, "Abierto") THEN "Abierta"
         ELSE IF Contains(block, "Cerrado") THEN "Cerrada" ELSE "", LAMBDA estado :
    With(<<Strip(c.titulo), Strip(c.texto)>>, LAMBDA lines :
    With(SelectSeq(lines, LAMBDA l :
             AnyIn({"TITULADO/A", "TÉCNICO/A", "INVESTIGADOR"}, l)), LAMBDA named :
    With(SelectSeq(lines, LAMBDA l :
             l # "" /\ Len(l) > 10 /\ ~StartsWith(l, "#")), LAMBDA signif :
    With(IF named # <<>> THEN named[1]
         ELSE IF signif # <<>>
         THEN (IF Len(signif[1]) > 200 THEN SubSeq(signif[1], 1, 200) ELSE signif[1])
         ELSE "", LAMBDA titulo :
    With(IF c.href = "" THEN "" ELSE urljoin("https://empleo.idisantiago.es", c.href), LAMBDA enlace :
        IF failed THEN None
        ELSE IF estado = "Cerrada" THEN None
        ELSE IF fl # "" /\ NotOpen(fl, tdy) THEN None
        ELSE IF Len(titulo) < 5 THEN None
        ELSE Oferta("IDIS_Santiago", titulo, fi, fl, estado, enlace, ""))))))))))))))

IdisSantiago_key(o) == <<Lower(Strip(o.titulo)), o.enlace>>

IdisSantiago_scrape(pg, tdy) ==
    Unique(IdisSantiago_key,
           ParseAll(LAMBDA c : IdisSantiago_parse_offer_block(c, tdy), Elements(pg)))

(***************************************************************************)
(* CiberisciiiPlaywrightScraper (src/iisempleos/scrapers/ciberisciii.py):  *)
(* rows of ten cells.                                                      *)
(***************************************************************************)
Ciberisciii_parse_row(c, tdy) ==
    With(Strip(c.titulo), LAMBDA titulo :
    With(Strip(c.f1), LAMBDA fi :
    With(Strip(c.f2), LAMBDA fl :
    With(Strip(c.estado), LAMBDA estado :
        IF estado # "" /\ Lower(estado) \notin {"abierta", "publicada"} THEN None
        ELSE IF fl # "" /\ NotOpen(fl, tdy) THEN None
        ELSE IF Len(titulo) < 2 THEN None
        ELSE Oferta("CIBERISCIII", titulo, fi, fl, estado, c.href, "")))))

Ciberisciii_key(o) == Strip(Lower(o.titulo))

Ciberisciii_remove_duplicates(ofs) == Unique(Ciberisciii_key, ofs)

Ciberisciii_scrape_ofertas(pg, tdy) ==
    Ciberisciii_remove_duplicates(
        ParseAll(LAMBDA c : Ciberisciii_parse_row(c, tdy), Rows(pg)))

(***************************************************************************)
(* IISJobScraper (src/iisempleos/main.py): the generic routines, as the    *)
(* Fundanet page type uses them (table rows, then list items).             *)
(***************************************************************************)
IISJobScraper_extract_oferta_info(c, tdy) ==
    With(IF Strip(c.titulo) # "" THEN Strip(c.titulo)
         ELSE Truncate(Strip(c.texto), 100), LAMBDA titulo :
    With(IF c.href = "" THEN "" ELSE urljoin("https://www.rfgi.es", c.href), LAMBDA enlace :
    With(extract_dates_from_text(c.texto), LAMBDA dates_found :
    With(IF dates_found # <<>>
         THEN format_date_for_display(MaxByDate(dates_found, 1, dates_found[1])[2])
         ELSE "", LAMBDA fl :
        IF fl # "" /\ NotOpen(fl, tdy) THEN None
        ELSE IF Len(titulo) < 5 THEN None
        ELSE Oferta("FIMABIS", titulo, "", fl, "", enlace, "")))))

IISJobScraper_extract_oferta_from_row(c, tdy) ==
    With(Strip(c.titulo), LAMBDA titulo :
    With(IF c.href = "" THEN "" ELSE urljoin("https://www.rfgi.es", c.href), LAMBDA enlace :
    With(<<c.f1, c.f2, c.estado>>, LAMBDA cells :
    With(SelectSeq(cells, LAMBDA x : extract_dates_from_text(x) # <<>>), LAMBDA dated :
    With(IF dated # <<>> THEN extract_dates_from_text(dated[1]) ELSE <<>>, LAMBDA dates_found :
    With(IF dates_found # <<>>
         THEN format_date_for_display(MaxByDate(dates_found, 1, dates_found[1])[2])
         ELSE "", LAMBDA fl :
        IF fl # "" /\ NotOpen(fl, tdy) THEN None
        ELSE IF titulo # "" THEN Oferta("FIMABIS", titulo, "", fl, "", enlace, "")
        ELSE None))))))

IISJobScraper_scrape_fundanet(pg, tdy) ==
    ParseAll(LAMBDA c : IISJobScraper_extract_oferta_from_row(c, tdy), Rows(pg))
    \o ParseAll(LAMBDA c : IISJobScraper_extract_oferta_info(c, tdy), Elements(pg))

(***************************************************************************)
(* Inputs of the DateParser operations: date texts in the five shapes,     *)
(* with valid and invalid fields, alone, in pairs and inside other text.   *)
(***************************************************************************)
LastYear == 2025

DayVals == {1, 29, 30, 31, 32}

MonthVals == {1, 2, 4, 12, 13}

YearVals == 2024 .. LastYear

\* a month written as a word: 13 stands for a word that is no Spanish month
MonthWord(m, abbr) ==
    IF m \in 1 .. 12
    THEN (IF abbr THEN MONTHS_ES[12 + m][1] ELSE MONTHS_ES[m][1])
    ELSE (IF abbr THEN "fbr" ELSE "februari")

NumStr(n, pad) == IF pad THEN Pad2(n) ELSE IntToStr(n)

\* the date (d, m, y) written in shape p; v picks padding / abbreviation
Shape(p, d, m, y, v) ==
    CASE p = 1 -> NumStr(d, v) \o "/" \o NumStr(m, v) \o "/" \o IntToStr(y)
      [] p = 2 -> NumStr(d, v) \o "-" \o NumStr(m, v) \o "-" \o IntToStr(y)
      [] p = 3 -> IntToStr(d) \o " de " \o MonthWord(m, v) \o " de " \o IntToStr(y)
      [] p = 4 -> IntToStr(d) \o " " \o MonthWord(m, v) \o " " \o IntToStr(y)
      [] p = 5 -> IntToStr(y) \o "-" \o NumStr(m, v) \o "-" \o NumStr(d, v)

SingleTexts ==
    { Shape(p, d, m, y, v) :
        p \in 1 .. NPatterns, d \in DayVals, m \in MonthVals, y \in YearVals, v \in BOOLEAN }

PairParts ==
    { Shape(p, d, 12, 2024, TRUE) : p \in 1 .. NPatterns, d \in {30, 31, 32} }

PairTexts == { a \o " " \o b : a \in PairParts, b \in PairParts }

OtherTexts ==
    { "", "not a date", "  15/12/2024  ", "Plazo: hasta el 20/01/2025",
      "Plazo: hasta el 20/01/2025, publicado el 01/12/2024",
      "32/12/2024 30/12/2024 31-12-2024 29/12/2024", "31-12-2024-12-30", "01/01/0999",
      "Del 1 DE Ene DE 2025 al 15 Feb 2025",
      "15 DE DICIEMBRE DE 2024", "01/13/2024", "132/01/2024", "31/12/20245",
      "0/1/2025", "1/1/0000", "15 12 2024", "Fecha límite: 30 de noviembre de 2024" }

\* the fifteenth of every month in every shape
MonthTexts ==
    { Shape(p, 15, m, LastYear, v) : p \in 1 .. NPatterns, m \in 1 .. 12, v \in BOOLEAN }

Texts == SingleTexts \cup MonthTexts \cup PairTexts \cup OtherTexts

Todays == { MkDate(2025, 1, 1), MkDate(2024, 2, 29), MkDate(2024, 12, 31) }

(***************************************************************************)
(* The DateParser operations as steps on one input.                        *)
(***************************************************************************)
InitDate ==
    /\ today \in Todays
    /\ text \in Texts
    /\ op = "init"
    /\ res = None
    /\ site = "-"
    /\ page = <<>>
    /\ ofertas = <<>>
    /\ results = <<>>
    /\ calls = <<>>
    /\ pc = "-"
    /\ browser = "none"
    /\ cls = ClassAttrs

ParseDate ==
    /\ op = "init"
    /\ op' = "parse_date"
    /\ res' = parse_date(text)
    /\ UNCHANGED <<today, text, site, page, ofertas, orch>>

IsDateOpen ==
    /\ op = "init"
    /\ op' = "is_date_open"
    /\ res' = is_date_open(text, today)
    /\ UNCHANGED <<today, text, site, page, ofertas, orch>>

ExtractDates ==
    /\ op = "init"
    /\ op' = "extract_dates_from_text"
    /\ res' = [kind |-> "dates", v |-> extract_dates_from_text(text)]
    /\ UNCHANGED <<today, text, site, page, ofertas, orch>>

\* a date that parse_date returned is formatted for display; how a year
\* below 1000 is written depends on the platform's strftime
FormatDate ==
    /\ op = "parse_date"
    /\ IsDate(res)
    /\ op' = "format_date_for_display"
    /\ \E shown \in { format_date_for_display(res),
                      format_date_for_display_padded_year(res) } :
          res' = [kind |-> "str", v |-> shown]
    /\ UNCHANGED <<today, text, site, page, ofertas, orch>>

DaysUntilDeadline ==
    /\ op = "init"
    /\ op' = "get_days_until_deadline"
    /\ res' = get_days_until_deadline(text, today)
    /\ UNCHANGED <<today, text, site, page, ofertas, orch>>

NextDate == ParseDate \/ IsDateOpen \/ ExtractDates \/ FormatDate \/ DaysUntilDeadline

SpecDate == InitDate /\ [][NextDate]_vars

(***************************************************************************)
(* Pages handed to the scrapers: up to MaxCands candidates of the site.    *)
(***************************************************************************)
MaxCands == 2

Row(ref, titulo, f1, f2, estado, href) == Cand("tr", ref, titulo, f1, f2, estado, "", href)

Elem(titulo, estado, texto, href) == Cand("div", "", titulo, "", "", estado, texto, href)

Sites ==
    {"Fimabis", "IisPrincesa", "IisLaFe", "PuertaHierro", "IbisSevilla", "Iisgm",
     "IbsGranada", "Idibaps", "Biobizkaia", "IdisSantiago", "Ciberisciii", "IISJobScraper"}

Cands(s) ==
    LET T  == "Técnico de laboratorio"
        TU == "TÉCNICO DE LABORATORIO "
        I  == "Investigador postdoctoral"
        P  == "01/03/2025"
        M  == "20/11/2025"
        F  == "15/03/2026"
    IN  CASE s = "Fimabis" ->
               { Row("", T, "01/05/2025", M, "", "/conv/1"), Row("", TU, "", F, "", "/conv/2"),
                 Row("", T, "", P, "", "/conv/1"), Row("", "Beca", "", "", "", ""),
                 Row("", "Plaza", "", "sin plazo", "", "conv/4"),
                 Elem("", "", "Investigador abierta del 15/03/2026 al 01/12/2025", "/conv/3"),
                 Elem(T, "", "Convocatoria cerrada el 15/03/2026", "/conv/1"),
                 Elem(I, "", "Sin fecha", "") }
          [] s = "IisPrincesa" ->
               { Elem("", "", "Técnico de apoyo a la investigación Descargar oferta",
                      "/docs/oferta_2025_10.pdf"),
                 Elem("", "", "", "/docs/tecnico-superior.pdf"),
                 Elem("", "", "", "https://www.iis-princesa.org/docs/a_2025.pdf"),
                 Elem("", "", "Descargar oferta", "/docs/ut.pdf"),
                 Elem("", "", "Bases de la convocatoria Descargar oferta", "/docs/bases.html"),
                 Elem("", "", "", "/docs/2025/plaza.pdf") }
          [] s = "IisLaFe" ->
               { Elem("Contratación de un técnico", "Abierta", "Abierta hasta 01/03/2025",
                      "/es/talento/empleo/12/"),
                 Elem("Contratación de un técnico", "Abierta", "Abierta hasta 15/03/2026",
                      "/es/talento/empleo/13/"),
                 Elem("Personal investigador", "ABIERTA", "Del 15/03/2026 al 01/12/2025",
                      "https://www.iislafe.es/es/talento/empleo/14/"),
                 Elem("Personal IIS", "Abierta", "", "/es/talento/empleo/15/"),
                 Elem("Personal de apoyo", "Abierta", "", "/es/talento/empleo/16/"),
                 Elem("Contratación de un técnico", "Cerrada", "", "/es/talento/empleo/17/"),
                 Elem("Investigador predoctoral", "Abierta", "", "/es/noticias/1/") }
          [] s = "PuertaHierro" ->
               { Row("R-1", T, "", F, "Abierta", "/c/1"), Row("R-1", TU, "", F, "abierto", "/c/9"),
                 Row("R-2", T, "", M, "Abierta", "/c/1"), Row("R-3", I, "01/01/2025", P, "Abierta", ""),
                 Row("R-4", I, "", F, "CERRADA", ""), Row("R-5", "Beca", "", "", "OPEN", ""),
                 Row("R-6", "Plaza", "", "", "Abierta", ""), Row("R-7", I, "", F, "", "") }
          [] s = "IbisSevilla" ->
               { Elem(T, "", "Publicada. Plazo del 15/03/2026 al 01/12/2025", "/ofertas-de-empleo-ibis/1"),
                 Elem(TU, "", "Vigente", "/ofertas-de-empleo-ibis/1"),
                 Elem(T, "", "Convocatoria cerrada 15/03/2026", "/ofertas-de-empleo-ibis/2"),
                 Elem(I, "", "Plazo hasta 01/03/2025", "/ofertas-de-empleo-ibis/3"),
                 Elem("Beca", "", "", "/ofertas-de-empleo-ibis/4"),
                 Elem(TU, "", "Sin fecha", "/ofertas-de-empleo-ibis/5"),
                 Elem("Plaza", "", "FINALIZADA y publicada 20/11/2025", "/ofertas-de-empleo-ibis/6") }
          [] s = "Iisgm" ->
               { Elem(T, "Abierta", "", "/ofertas-de-empleo/tecnico"),
                 Elem(TU, "Abierta", "", "/ofertas-de-empleo/tecnico"),
                 Elem(T, "Abierta", "", "/ofertas-de-empleo/tecnico-2"),
                 Elem(I, "abierta", "", "/ofertas-de-empleo/tecnico"),
                 Elem("Plaza", "Abierta", "", "/ofertas-de-empleo/plaza"),
                 Elem("Plazas", "Abierta", "", "/ofertas-de-empleo/plazas"),
                 Elem(I, "Cerrada", "", "/ofertas-de-empleo/inv"),
                 Elem(I, "Abierta", "", "/noticias/inv") }
          [] s = "IbsGranada" ->
               { Row("", T, "16 Oct. 2025", "26 Mar. 2026", "open", "/ofertas/1"),
                 Row("", TU, "", "", "open", "/OFERTAS/1"), Row("", T, "", "", "open", "/ofertas/2"),
                 Row("", I, "1 Ene. 2025", "1 Mar. 2025", "open", "/ofertas/3"),
                 Row("", I, "", "26 Mar. 2026", "closed", "/ofertas/4"),
                 Row("", "UT", "", "", "open", ""), Row("", "RRH", "", "", "open", ""),
                 Row("", I, "01-10-2025", "20-11-2025", "open", "/ofertas/5") }
          [] s = "Idibaps" ->
               { Row("", T, "01/12/2025", F, "", "/i/1"), Row("", TU, F, "01/12/2025", "", "/i/1"),
                 Row("", T, "", F, "", "/i/2"), Row("", I, "", "", "", "/i/3"),
                 Row("", I, "", P, "", "/i/4"), Row("", "Enfermería", "", F, "", ""),
                 Row("", "Enfermero/a", "", M, "", "") }
          [] s = "Biobizkaia" ->
               { Row("", T, "01/05/2025", F, "Abierta", "/c/1"), Row("", T, "", P, "Abierta", "/c/2"),
                 Row("", I, "", F, "Convocatoria CERRADA", ""), Row("", I, "", "", "", "c/3"),
                 Row("", "Beca", "", F, "", ""), Row("", T, "", "sin plazo", "", ""),
                 Row("", I, "mayo de 2025", "2026-03-15", "", "/c/6"),
                 Elem(T, "", "Sin fechas", "/c/4"), Elem(I, "", "Plazo hasta 15/03/2026", ""),
                 Elem(T, "", "Del 15/03/2026 al 01/12/2025", "https://bioef.eus/5") }
          [] s = "IdisSantiago" ->
               { Elem(T, "", "Abierto 01/12/2025 15/03/2026", "/ofertas/1"),
                 Elem(TU, "", "Abierto 15/03/2026 01/12/2025", "/ofertas/1"),
                 Elem(T, "", "Cerrado 01/12/2025 15/03/2026", "/ofertas/2"),
                 Elem(I, "", "CERRADO 01/12/2025 15/03/2026", "/ofertas/3"),
                 Elem(I, "", "Abierto 01/01/2025 01/03/2025", ""),
                 Elem(T, "", "Abierto 32/01/2026 15/03/2026", ""),
                 Elem("Beca", "", "Abierto", ""), Elem(I, "", "Plazo 01/03/2025", "/ofertas/4") }
          [] s = "Ciberisciii" ->
               { Row("", T, "01/05/2025", F, "Abierta", "/d/1"), Row("", TU, "", M, "PUBLICADA", "/d/2"),
                 Row("", T, "", P, "Abierta", ""), Row("", I, "", F, "Cerrada", ""),
                 Row("", "UT", "", "", "", ""), Row("", "X", "", "", "abierta", ""),
                 Row("", I, "", "pendiente", "", ""), Row("", I, "", "", "", "detalle/3"),
                 Row("", I, "1 de mayo de 2025", "15-03-2026", "Abierta",
                     "https://www.ciberisciii.es/d/4") }
          [] s = "IISJobScraper" ->
               { Row("", "X", "", F, "", ""), Row("", "", "", F, "", "/conv/0"),
                 Row("", T, "01/12/2025", F, "", "/conv/1"), Row("", T, "", P, "", ""),
                 Row("", I, "", "", "", "conv/2"),
                 Elem("", "", "Beca", ""), Elem(I, "", "Plazo del 15/03/2026 al 01/12/2025", "/x"),
                 Elem(T, "", "hasta 01/03/2025", ""), Elem(T, "", "", "") }

RECURSIVE SeqsUpTo(_, _)
\* the sequences of at most n elements of S
SeqsUpTo(S, n) ==
    IF n = 0 THEN {<<>>}
    ELSE With(SeqsUpTo(S, n - 1), LAMBDA shorter :
             shorter \cup { Append(q, x) : q \in shorter, x \in S })

Pages(s) == SeqsUpTo(Cands(s), MaxCands)

ScrapeTodays == { MkDate(2025, 6, 15), MkDate(2026, 1, 10) }

\* what scrape() of site s returns for the page on day tdy
ScrapeOf(s, pg, tdy) ==
    CASE s = "Fimabis"       -> Fimabis_scrape(pg, tdy)
      [] s = "IisPrincesa"   -> IisPrincesa_scrape(pg)
      [] s = "IisLaFe"       -> IisLaFe_scrape_page(pg)
      [] s = "PuertaHierro"  -> PuertaHierro_scrape(pg, tdy)
      [] s = "IbisSevilla"   -> IbisSevilla_scrape(pg, tdy)
      [] s = "Iisgm"         -> Iisgm_scrape(pg)
      [] s = "IbsGranada"    -> IbsGranada_scrape(pg, tdy)
      [] s = "Idibaps"       -> Idibaps_scrape_requests(pg, tdy)
      [] s = "Biobizkaia"    -> Biobizkaia_scrape(pg, tdy)
      [] s = "IdisSantiago"  -> IdisSantiago_scrape(pg, tdy)
      [] s = "Ciberisciii"   -> Ciberisciii_scrape_ofertas(pg, tdy)
      [] s = "IISJobScraper" -> IISJobScraper_scrape_fundanet(pg, tdy)

InitScrape ==
    /\ today \in ScrapeTodays
    /\ text = ""
    /\ op = "init"
    /\ res = None
    /\ site = "-"
    /\ page = <<>>
    /\ ofertas = <<>>
    /\ results = <<>>
    /\ calls = <<>>
    /\ pc = "-"
    /\ browser = "none"
    /\ cls = ClassAttrs

\* one scraper reads one page and returns its offers
Scrape(s) ==
    /\ op = "init"
    /\ \E pg \in Pages(s) :
          /\ page' = pg
          /\ ofertas' = ScrapeOf(s, pg, today)
    /\ site' = s
    /\ op' = "scrape"
    /\ UNCHANGED <<today, text, res, orch>>

ScrapeFimabis == Scrape("Fimabis")

ScrapeIisPrincesa == Scrape("IisPrincesa")

ScrapeIisLaFe == Scrape("IisLaFe")

ScrapePuertaHierro == Scrape("PuertaHierro")

ScrapeIbisSevilla == Scrape("IbisSevilla")

ScrapeIisgm == Scrape("Iisgm")

ScrapeIbsGranada == Scrape("IbsGranada")

ScrapeIdibaps == Scrape("Idibaps")

ScrapeBiobizkaia == Scrape("Biobizkaia")

ScrapeIdisSantiago == Scrape("IdisSantiago")

ScrapeCiberisciii == Scrape("Ciberisciii")

ScrapeIISJobScraper == Scrape("IISJobScraper")

NextScrape ==
    \/ ScrapeFimabis \/ ScrapeIisPrincesa \/ ScrapeIisLaFe \/ ScrapePuertaHierro
    \/ ScrapeIbisSevilla \/ ScrapeIisgm \/ ScrapeIbsGranada \/ ScrapeIdibaps
    \/ ScrapeBiobizkaia \/ ScrapeIdisSantiago \/ ScrapeCiberisciii \/ ScrapeIISJobScraper

SpecScrape == InitScrape /\ [][NextScrape]_vars

(***************************************************************************)
(* The deduplication loops on their own: a list of offers of one site goes *)
(* through the loop that ends the site's scrape.                           *)
(***************************************************************************)
MaxOfertas == 3

DedupSites ==
    {"Fimabis", "Iisgm", "PuertaHierro", "IbsGranada", "Idibaps",
     "Ciberisciii", "Igtp", "Ibsal", "Idival"}

Igtp_key(o) == Strip(Lower(o.titulo))

Ibsal_key(o) == <<Lower(Strip(o.titulo)), o.enlace>>

Idival_key(o) == <<Lower(o.titulo), o.enlace>>

OfertaPool ==
    { Oferta("-", t, "", "", "", e, r) :
        t \in {"Beca", "BECA ", "Plaza"}, e \in {"/a", "/A"}, r \in {"R1", "R2"} }

\* the loop of site s applied to the offers collected so far
DedupOf(s, ofs) ==
    CASE s = "Fimabis"      -> Fimabis_remove_duplicates(ofs)
      [] s = "Iisgm"        -> Unique(Iisgm_key, ofs)
      [] s = "PuertaHierro" -> Unique(PuertaHierro_key, ofs)
      [] s = "IbsGranada"   -> Unique(IbsGranada_key, ofs)
      [] s = "Idibaps"      -> Unique(Idibaps_key, ofs)
      [] s = "Ciberisciii"  -> Ciberisciii_remove_duplicates(ofs)
      [] s = "Igtp"         -> Unique(Igtp_key, ofs)
      [] s = "Ibsal"        -> Unique(Ibsal_key, ofs)
      [] s = "Idival"       -> Unique(Idival_key, ofs)

InitDedup ==
    /\ today \in ScrapeTodays
    /\ text = ""
    /\ op = "init"
    /\ res = None
    /\ site \in DedupSites
    /\ page = <<>>
    /\ ofertas \in SeqsUpTo(OfertaPool, MaxOfertas)
    /\ results = <<>>
    /\ calls = <<>>
    /\ pc = "-"
    /\ browser = "none"
    /\ cls = ClassAttrs

Deduplicate(s) ==
    /\ op = "init"
    /\ site = s
    /\ op' = "dedup"
    /\ res' = [kind |-> "ofertas", v |-> DedupOf(s, ofertas)]
    /\ UNCHANGED <<today, text, site, page, ofertas, orch>>

DedupFimabis == Deduplicate("Fimabis")

DedupIisgm == Deduplicate("Iisgm")

DedupPuertaHierro == Deduplicate("PuertaHierro")

DedupIbsGranada == Deduplicate("IbsGranada")

DedupIdibaps == Deduplicate("Idibaps")

DedupCiberisciii == Deduplicate("Ciberisciii")

DedupIgtp == Deduplicate("Igtp")

DedupIbsal == Deduplicate("Ibsal")

DedupIdival == Deduplicate("Idival")

NextDedup ==
    \/ DedupFimabis \/ DedupIisgm \/ DedupPuertaHierro \/ DedupIbsGranada \/ DedupIdibaps
    \/ DedupCiberisciii \/ DedupIgtp \/ DedupIbsal \/ DedupIdival

SpecDedup == InitDedup /\ [][NextDedup]_vars

(***************************************************************************)
(* Properties of the DateParser operations (SpecDate).                     *)
(***************************************************************************)
Min(S) == CHOOSE x \in S : \A y \in S : x <= y

\* days are compared as calendar dates: a key that grows with the date
DateKey(dt) == dt.y * 10000 + dt.m * 100 + dt.d

\* the day before dt
Yesterday(dt) ==
    IF dt.d > 1 THEN MkDate(dt.y, dt.m, dt.d - 1)
    ELSE IF dt.m > 1 THEN MkDate(dt.y, dt.m - 1, DaysInMonth(dt.y, dt.m - 1))
    ELSE MkDate(dt.y - 1, 12, 31)

\* the text parse_date works on, and the patterns that yield a date for it
Prepared == Lower(Strip(text))

GoodPatterns == { p \in 1 .. NPatterns : TryPattern(p, Prepared).kind = "date" }

FailedPatterns ==
    { p \in 1 .. NPatterns : TryPattern(p, Prepared).kind \in {"exc", "fallthrough"} }

\* C2: is_date_open(text) is true exactly when parse_date(text) yields a date
\* on or after today (today itself is open, the day before is not), and it
\* is false for every text that does not parse.
C2_IsOpenIffParsedNotPast ==
    op = "is_date_open" =>
        LET p == parse_date(text)
        IN  /\ res.kind = "bool"
            /\ res.v = (IsDate(p) /\ DateKey(p) >= DateKey(today))
            /\ (text = format_date_for_display(today) => res.v)
            /\ (text = format_date_for_display(Yesterday(today)) => ~res.v)
            /\ (~IsDate(p) => ~res.v)

C2_Witness ==
    /\ op = "is_date_open"
    /\ text = format_date_for_display(today)
    /\ res = Bool(TRUE)

\* C3: parse_date returns the date of the first pattern, in the fixed order
\* 1..5, that matches and constructs a valid date, wherever in the text the
\* matches lie and however long they are; with no such pattern, no date.
C3_FirstPatternInOrderWins ==
    op = "parse_date" =>
        IF text = "" \/ GoodPatterns = {} THEN ~IsDate(res)
        ELSE res = TryPattern(Min(GoodPatterns), Prepared)

\* a later pattern matches earlier in the text and yields another date
C3_Witness ==
    /\ op = "parse_date"
    /\ \E p \in GoodPatterns : \E q \in GoodPatterns :
          /\ p < q
          /\ p = Min(GoodPatterns)
          /\ Search(q, Prepared).s < Search(p, Prepared).s
          /\ TryPattern(q, Prepared) # TryPattern(p, Prepared)
          /\ res = TryPattern(p, Prepared)

\* C4: a pattern that matches but whose fields form no date (day or month
\* out of range, unknown month name) is skipped and the next patterns are
\* tried; with no pattern yielding a date the result is None; parse_date
\* never raises.
C4_FailedPatternIsSkipped ==
    op = "parse_date" =>
        /\ res.kind \in {"date", "none"}
        /\ \A p \in FailedPatterns :
              (\A q \in 1 .. (p - 1) : q \notin GoodPatterns) =>
                  LET Later == { q \in GoodPatterns : q > p }
                  IN  IF Later = {} THEN res = None
                      ELSE res = TryPattern(Min(Later), Prepared)

\* the first pattern fails to construct and a later one yields the date
C4_Witness ==
    /\ op = "parse_date"
    /\ \E p \in FailedPatterns : \E q \in GoodPatterns :
          /\ p < q
          /\ \A r \in 1 .. (q - 1) : r \notin GoodPatterns
          /\ res = TryPattern(q, Prepared)

(***************************************************************************)
(* Properties of the site scrapers (SpecScrape) and of their               *)
(* deduplication loops (SpecDedup).                                        *)
(***************************************************************************)

\* C1: every offer a site scraper returns whose fecha_limite is non-empty and
\* parseable denotes today or a later calendar date
C1_ReturnedDeadlineNotPast ==
    op = "scrape" =>
        \A k \in DOMAIN ofertas :
            LET d == parse_date(ofertas[k].fecha_limite)
            IN  (ofertas[k].fecha_limite # "" /\ IsDate(d)) => DateKey(d) >= DateKey(today)

\* the key under which the loop of site s looks an offer up
KeyOf(s, o) ==
    CASE s = "Fimabis"      -> Fimabis_key(o)
      [] s = "Iisgm"        -> Iisgm_key(o)
      [] s = "PuertaHierro" -> PuertaHierro_key(o)
      [] s = "IbsGranada"   -> IbsGranada_key(o)
      [] s = "Idibaps"      -> Idibaps_key(o)
      [] s = "Ciberisciii"  -> Ciberisciii_key(o)
      [] s = "Igtp"         -> Igtp_key(o)
      [] s = "Ibsal"        -> Ibsal_key(o)
      [] s = "Idival"       -> Idival_key(o)

RECURSIVE PickFrom(_, _, _)
\* the elements of seq at the positions of S, in the order of seq
PickFrom(seq, S, i) ==
    IF i > Len(seq) THEN <<>>
    ELSE (IF i \in S THEN <<seq[i]>> ELSE <<>>) \o PickFrom(seq, S, i + 1)

\* C5: the deduplicated list holds, for each key, the first offer with that key
\* and nothing else, in the order the offers had before deduplication
C5_DedupKeepsFirstInOrder ==
    op = "dedup" =>
        LET first == { i \in DOMAIN ofertas :
                         \A j \in 1 .. (i - 1) : KeyOf(site, ofertas[j]) # KeyOf(site, ofertas[i]) }
        IN  res.v = PickFrom(ofertas, first, 1)

\* three offers, the third another offer with the key of the first: the first
\* and the second are returned, in that order
C5_Witness ==
    /\ op = "dedup"
    /\ site = "IbsGranada"
    /\ Len(ofertas) = 3
    /\ IbsGranada_key(ofertas[1]) = IbsGranada_key(ofertas[3])
    /\ IbsGranada_key(ofertas[1]) # IbsGranada_key(ofertas[2])
    /\ ofertas[1] # ofertas[3]
    /\ res.v = <<ofertas[1], ofertas[2]>>

\* the lowercased, trimmed title of an offer
TitleKey(o) == Strip(Lower(o.titulo))

DocumentedKey(s, o) ==
    CASE s = "Fimabis"      -> <<TitleKey(o)>>
      [] s = "Iisgm"        -> <<o.enlace>>
      [] s = "PuertaHierro" -> <<TitleKey(o), o.referencia>>
      [] s = "IbsGranada"   -> <<TitleKey(o), Strip(Lower(o.enlace))>>
      [] s = "Idibaps"      -> <<TitleKey(o), o.enlace>>
      [] s = "Ciberisciii"  -> <<TitleKey(o)>>
      [] s = "Igtp"         -> <<TitleKey(o)>>
      [] s = "Ibsal"        -> <<TitleKey(o), o.enlace>>
      [] s = "Idival"       -> <<Lower(o.titulo), o.enlace>>

Max(S) == CHOOSE x \in S : \A y \in S : x >= y

\* the text of a candidate in which a scraper looks for dates
DateText(c) == IF c.tag = "tr" THEN c.f1 \o " " \o c.f2 ELSE c.texto

\* the sites and candidates whose date slots are filled from the dates found
\* in the text (the others read one column per slot)
FillsFromText(s, c) ==
    \/ s \in {"IisLaFe", "IbisSevilla", "IdisSantiago"}
    \/ s = "Idibaps" /\ c.tag = "tr"
    \/ s \in {"Fimabis", "Biobizkaia", "IISJobScraper"} /\ c.tag # "tr"

\* C7: an offer built from a text with several dates has the latest of them as
\* deadline and, where the start is filled, the earliest as start
C7_DeadlineLatestStartEarliest ==
    (op = "scrape" /\ Len(page) = 1 /\ Len(ofertas) = 1 /\ FillsFromText(site, page[1])) =>
        LET found == extract_dates_from_text(DateText(page[1]))
            keys  == { DateKey(found[i][2]) : i \in DOMAIN found }
            o     == ofertas[1]
        IN  Len(found) >= 2 =>
                /\ IsDate(parse_date(o.fecha_limite))
                /\ DateKey(parse_date(o.fecha_limite)) = Max(keys)
                /\ o.fecha_inicio # "" =>
                       /\ IsDate(parse_date(o.fecha_inicio))
                       /\ DateKey(parse_date(o.fecha_inicio)) = Min(keys)

ClosedTokens == {"cerrada", "finalizada"}

\* a candidate whose status is closed: the status cell of a row of Puerta de
\* Hierro, Biobizkaia or CIBERISCIII, or an IBIS detail page whose words give
\* the status Cerrada
ClosedCandidate(s, c) ==
    \/ /\ s \in {"PuertaHierro", "Biobizkaia", "Ciberisciii"}
       /\ c.tag = "tr"
       /\ AnyIn(ClosedTokens, Lower(c.estado))
    \/ /\ s = "IbisSevilla"
       /\ AnyIn(ClosedTokens, Lower(c.texto))
       /\ ~AnyIn({"abierta", "publicada", "vigente"}, Lower(c.texto))

C9_TitleAtLeastTwoChars ==
    op = "scrape" =>
        \A k \in DOMAIN ofertas : ofertas[k].titulo # "" /\ Len(ofertas[k].titulo) >= 2

\* the minimum title length of the routine that builds the offers of a page
MinTitleLength(s, pg) ==
    CASE s = "IisLaFe"       -> 15
      [] s = "IbsGranada"    -> 3
      [] s = "Ciberisciii"   -> 2
      [] s = "IISJobScraper" -> IF Rows(pg) # <<>> THEN 1 ELSE 5
      [] OTHER               -> 5

\* C9 (amended): every returned title is non-empty and at least as long as the
\* minimum of its routine (1 generic table rows, 2 CIBERISCIII, 3 IBS Granada,
\* 15 La Fe, 5 the others), and a page whose candidates all have a shorter title
\* gives no offer
C9_TitleMeetsSiteMinimum ==
    op = "scrape" =>
        /\ \A k \in DOMAIN ofertas :
             ofertas[k].titulo # "" /\ Len(ofertas[k].titulo) >= MinTitleLength(site, page)
        /\ (/\ page # <<>>
            /\ \A k \in DOMAIN page :
                 /\ page[k].titulo # ""
                 /\ Len(Strip(page[k].titulo)) < MinTitleLength(site, page))
               => ofertas = <<>>

\* La Fe: of two open items with a valid link, the one with a title of 12
\* characters is discarded and the one with 17 is returned
C9_Witness ==
    /\ op = "scrape"
    /\ site = "IisLaFe"
    /\ Len(page) = 2
    /\ Len(page[1].titulo) = 12 /\ Len(page[2].titulo) = 17
    /\ page[1].estado = "Abierta" /\ page[2].estado = "Abierta"
    /\ Contains(page[1].href, "/es/talento/empleo/")
    /\ Len(ofertas) = 1
    /\ ofertas[1].titulo = page[2].titulo

\* C10: a candidate with a valid title, no status and no date anywhere is
\* returned, with an empty deadline
C10_NoDeadlineIsReturnedEmpty ==
    (/\ op = "scrape"
     /\ site \in {"IISJobScraper", "Idibaps", "Biobizkaia"}
     /\ Len(page) = 1
     /\ Len(Strip(page[1].titulo)) >= 15
     /\ page[1].estado = ""
     /\ page[1].f1 = "" /\ page[1].f2 = ""
     /\ extract_dates_from_text(page[1].texto) = <<>>)
        => /\ Len(ofertas) = 1
           /\ ofertas[1].fecha_limite = ""


(***************************************************************************)
(* Properties of a batch: what one candidate does to the others.           *)
(***************************************************************************)
\* the page without its k-th candidate
RemoveAt(pg, k) == SubSeq(pg, 1, k - 1) \o SubSeq(pg, k + 1, Len(pg))

\* a candidate that gives no offer when it is alone on the page
ExcludedAlone(s, c, tdy) == ScrapeOf(s, <<c>>, tdy) = <<>>

\* C11: a candidate that is excluded costs only itself: the offers the
\* scraper accepts from the other candidates of the page (all of one kind,
\* rows or elements) are returned whether or not the excluded candidate is there
C11_MalformedCandidateOnlyExcluded ==
    op = "scrape" =>
        \A k \in DOMAIN page :
            (/\ \A j \in DOMAIN page : page[j].tag = page[k].tag
             /\ ExcludedAlone(site, page[k], today))
                => LET others == ScrapeOf(site, RemoveAt(page, k), today)
                   IN  \A j \in DOMAIN others :
                           \E i \in DOMAIN ofertas : ofertas[i] = others[j]


(***************************************************************************)
(* Properties of extract_dates_from_text.                                  *)
(***************************************************************************)
RECURSIVE ScanStarts(_, _, _)
\* where the matches of pattern p begin when t is read from position i on,
\* each match beginning at the first possible place after the one before it
ScanStarts(p, t, i) ==
    IF i > Len(t) THEN {}
    ELSE IF MatchAt(p, t, i) = NoMatch THEN ScanStarts(p, t, i + 1)
    ELSE {i} \cup ScanStarts(p, t, MatchAt(p, t, i).e + 1)

\* the (pattern, position) pairs of the matches whose fields form a date
Hits ==
    UNION { { <<p, j>> : j \in { k \in ScanStarts(p, text, 1) :
                                  IsDate(BuildDate(p, MatchAt(p, text, k))) } } :
            p \in 1 .. NPatterns }

\* the entry (matched substring, date) of a hit
EntryOf(h) ==
    LET m == MatchAt(h[1], text, h[2])
    IN  <<SubSeq(text, m.s, m.e), BuildDate(h[1], m)>>

\* C12: the result holds one entry (matched substring, date) for every match
\* of each of the five patterns, the matches of one pattern not overlapping,
\* whose fields form a date, and no other entry; a text without such a match
\* gives the empty sequence
C12_EntryForEveryValidMatch ==
    op = "extract_dates_from_text" =>
        With(Hits, LAMBDA H :
            /\ res.kind = "dates"
            /\ Len(res.v) = Cardinality(H)
            /\ { res.v[i] : i \in DOMAIN res.v } = { EntryOf(h) : h \in H }
            /\ \A i \in DOMAIN res.v : IsDate(res.v[i][2]))

\* a text with four matches of the first two patterns, one of them with day
\* 32, gives the three entries of the others
C12_Witness ==
    /\ op = "extract_dates_from_text"
    /\ Cardinality(ScanStarts(1, text, 1)) = 3
    /\ Cardinality(ScanStarts(2, text, 1)) = 1
    /\ \E j \in ScanStarts(1, text, 1) : ~IsDate(BuildDate(1, MatchAt(1, text, j)))
    /\ Len(res.v) = 3
    /\ \A i \in DOMAIN res.v : IsDate(res.v[i][2])

\* h comes before g: by pattern, then by position in the text
HitBefore(h, g) == h[1] < g[1] \/ (h[1] = g[1] /\ h[2] < g[2])

\* C13: the entries are ordered by the position of their pattern in the
\* pattern list and, within one pattern, from left to right in the text
C13_OrderedByPatternThenPosition ==
    op = "extract_dates_from_text" =>
        With(Hits, LAMBDA H :
            /\ Len(res.v) = Cardinality(H)
            /\ \A h \in H :
                  res.v[1 + Cardinality({ g \in H : HitBefore(g, h) })] = EntryOf(h))

\* a match of the second pattern lies before a match of the first and has the
\* earlier date: the result begins with the entry of the first pattern, so it
\* is ordered neither by position nor by date
C13_Witness ==
    /\ op = "extract_dates_from_text"
    /\ Len(res.v) = 2
    /\ \E a \in ScanStarts(1, text, 1) : \E b \in ScanStarts(2, text, 1) :
          /\ b < a
          /\ res.v[1] = EntryOf(<<1, a>>)
          /\ res.v[2] = EntryOf(<<2, b>>)
          /\ DateLT(res.v[2][2], res.v[1][2])


(***************************************************************************)
(* Properties of parse_date on the five shapes.                            *)
(***************************************************************************)
\* day d of month m of year y is a day of the calendar
RealDate(d, m, y) ==
    /\ y \in 1 .. 9999
    /\ \/ m \in {1, 3, 5, 7, 8, 10, 12} /\ d \in 1 .. 31
       \/ m \in {4, 6, 9, 11} /\ d \in 1 .. 30
       \/ m = 2 /\ d \in 1 .. 28
       \/ m = 2 /\ d = 29 /\ (y % 400 = 0 \/ (y % 4 = 0 /\ y % 100 # 0))

\* the three numbers of a text that is one numeric form DD/MM/YYYY or
\* DD-MM-YYYY and nothing else, <<>> for any other text
NumericForm(t) ==
    LET a == MatchDMY(t, 1, "/")
        b == MatchDMY(t, 1, "-")
        m == IF a # NoMatch THEN a ELSE b
    IN  IF m # NoMatch /\ m.e = Len(t)
        THEN <<ToInt(m.g[1]), ToInt(m.g[2]), ToInt(m.g[3])>>
        ELSE <<>>

\* C14: a text that is a numeric form a/b/y or a-b-y is read day-first: the
\* result is day a of month b when that is a date and nothing otherwise, a
\* second number above 12 included
C14_NumericFormsAreDayFirst ==
    op = "parse_date" =>
        With(NumericForm(Strip(text)), LAMBDA n :
            n # <<>> =>
                IF RealDate(n[1], n[2], n[3])
                THEN res = MkDate(n[3], n[2], n[1])
                ELSE res = None)

\* 01/13/2024, which is a date only when read month-first, gives no result
C14_Witness ==
    /\ op = "parse_date"
    /\ NumericForm(text) = <<1, 13, 2024>>
    /\ res = None

\* the (shape, day, month, year, variant) combinations that are written as text
ShapesOf(t) ==
    { x \in (1 .. NPatterns) \X (DayVals \cup {15}) \X (1 .. 13) \X YearVals \X BOOLEAN :
        Shape(x[1], x[2], x[3], x[4], x[5]) = t }

\* C15: parse_date returns a date of the calendar or nothing, never an error;
\* a text that writes a day that does not exist (day 32, 30 or 31 February,
\* 31 April, 29 February of a common year, month 13) gives nothing
C15_OnlyRealCalendarDates ==
    op = "parse_date" =>
        /\ res.kind \in {"date", "none"}
        /\ IsDate(res) => RealDate(res.d, res.m, res.y)
        /\ \A x \in ShapesOf(text) : ~RealDate(x[2], x[3], x[4]) => res = None

\* 29 February is written for a common year and gives no result
C15_Witness ==
    /\ op = "parse_date"
    /\ \E x \in ShapesOf(text) : x[2] = 29 /\ x[3] = 2 /\ x[4] % 4 # 0
    /\ res = None

\* C16: a date of the calendar written in any of the five shapes, padded or
\* not, the month name in full or abbreviated, is parsed to that date
C16_AllShapesGiveTheSameDate ==
    op = "parse_date" =>
        \A x \in ShapesOf(text) :
            RealDate(x[2], x[3], x[4]) => res = MkDate(x[4], x[3], x[2])

\* the fourth shape with an abbreviated month name gives the date
C16_Witness ==
    /\ op = "parse_date"
    /\ text = "15 sep 2025"
    /\ res = MkDate(2025, 9, 15)


(***************************************************************************)
(* Properties of the display form.                                         *)
(***************************************************************************)
\* s is written DD/MM/YYYY: two digits, two digits and four digits
IsDisplayForm(s) ==
    /\ Len(s) = 10
    /\ SubSeq(s, 3, 3) = "/" /\ SubSeq(s, 6, 6) = "/"
    /\ \A i \in {1, 2, 4, 5, 7, 8, 9, 10} : SubSeq(s, i, i) \in DigitChars

\* C17: the display string of a date that was constructed is the zero-padded
\* DD/MM/YYYY and parse_date of it gives the date back
C17_FormatThenParseRoundTrip ==
    op = "format_date_for_display" =>
        /\ IsDisplayForm(res.v)
        /\ parse_date(res.v) = parse_date(text)


(***************************************************************************)
(* Properties of get_days_until_deadline.                                  *)
(***************************************************************************)
\* the number of the day x within its year, 1 January being 1
DayOfYear(x) ==
    Cardinality({ md \in (1 .. 12) \X (1 .. 31) :
                    /\ RealDate(md[2], md[1], x.y)
                    /\ (md[1] < x.m \/ (md[1] = x.m /\ md[2] <= x.d)) })

\* the days from a to b for a.y <= b.y, negative when b lies before a
DaysForward(a, b) ==
    365 * (b.y - a.y)
    + Cardinality({ y \in a.y .. (b.y - 1) : RealDate(29, 2, y) })
    + DayOfYear(b) - DayOfYear(a)

\* the whole days from a to b
DaysFromTo(a, b) == IF a.y <= b.y THEN DaysForward(a, b) ELSE 0 - DaysForward(b, a)

\* C18: the result is the number of whole days from today to the parsed
\* date, negative for a date already past, and None for a text without a date
C18_DaysUntilIsSignedDifference ==
    op = "get_days_until_deadline" =>
        With(parse_date(text), LAMBDA p :
            IF IsDate(p)
            THEN /\ res = PyInt(DaysFromTo(today, p))
                 /\ (DateLT(p, today) => res.v < 0)
            ELSE res = None)

\* the day before today gives -1
C18_Witness ==
    /\ op = "get_days_until_deadline"
    /\ IsDate(parse_date(text))
    /\ parse_date(text) = Yesterday(today)
    /\ res = PyInt(0 - 1)


(***************************************************************************)
(* Properties of the fields of the returned offers.                        *)
(***************************************************************************)
\* u is an absolute URL: it begins with a scheme and a host
IsAbsoluteUrl(u) == StartsWith(u, "http://") \/ StartsWith(u, "https://")

\* C19: the link of every returned offer is empty or an absolute URL
C19_LinkEmptyOrAbsolute ==
    op = "scrape" =>
        \A k \in DOMAIN ofertas :
            ofertas[k].enlace = "" \/ IsAbsoluteUrl(ofertas[k].enlace)

\* C20: the start date and the deadline of every returned offer are each
\* empty or written DD/MM/YYYY
C20_DatesEmptyOrDisplayForm ==
    op = "scrape" =>
        \A k \in DOMAIN ofertas :
            /\ ofertas[k].fecha_inicio = "" \/ IsDisplayForm(ofertas[k].fecha_inicio)
            /\ ofertas[k].fecha_limite = "" \/ IsDisplayForm(ofertas[k].fecha_limite)

(***************************************************************************)
(* DateParser called from two threads.  Each thread makes one call; a step *)
(* is one turn of the loop over cls.DATE_PATTERNS, reading the class       *)
(* attributes as they are at that moment, and the steps of the two threads *)
(* interleave freely.  The day does not change during the run.             *)
(***************************************************************************)
Pending == [kind |-> "pending"]

ThreadOps == {"parse_date", "is_date_open", "get_days_until_deadline"}

ThreadTexts ==
    { "", "sin fecha", "31-12-2024-12-30",
      "32/12/2024 30/12/2024 31-12-2024 29/12/2024" }

\* a call in flight: p is the turn of the pattern loop it will take next,
\* overlapped tells that it took a step while the other call was under way
Call(o, t) == [op |-> o, text |-> t, p |-> 0, res |-> Pending, overlapped |-> FALSE]

\* a loop that moves the pattern it has just tried to the end of the list
AttrsAfterTurnRotating(c) ==
    [c EXCEPT !.DATE_PATTERNS =
        [p \in 1 .. NPatterns |-> c.DATE_PATTERNS[(p % NPatterns) + 1]]]

\* the class attributes after a turn of the loop: the loop and the month
\* lookup only read them
AttrsAfterTurn(c) == c

\* what the called operation makes of the value parse_date gave it
AfterParse(o, parsed_date, tdy) ==
    CASE o = "parse_date" -> parsed_date
      [] o = "is_date_open" ->
            IF parsed_date.kind = "raise" THEN parsed_date
            ELSE IF parsed_date = None THEN Bool(FALSE)
            ELSE Bool(DateGE(parsed_date, tdy))
      [] o = "get_days_until_deadline" ->
            IF parsed_date.kind = "raise" THEN parsed_date
            ELSE IF parsed_date = None THEN None
            ELSE PyInt(ToOrdinal(parsed_date) - ToOrdinal(tdy))

\* the call after its next step: the entry test `if not date_text`, then
\* one pattern per step, in the order cls.DATE_PATTERNS has at that moment
CallAfterStep(c, attrs, tdy) ==
    IF c.p = 0
    THEN IF c.text = ""
         THEN [c EXCEPT !.res = AfterParse(c.op, None, tdy)]
         ELSE [c EXCEPT !.p = 1]
    ELSE IF c.p > Len(attrs.DATE_PATTERNS)
    THEN [c EXCEPT !.res = AfterParse(c.op, None, tdy)]
    ELSE With(TryPattern(attrs.DATE_PATTERNS[c.p], Lower(Strip(c.text))), LAMBDA r :
             IF r.kind = "date"
             THEN [c EXCEPT !.res = AfterParse(c.op, r, tdy)]
             ELSE IF r.kind = "exc" /\ ~CaughtByParse(r)
                  THEN [c EXCEPT !.res = AfterParse(c.op, [kind |-> "raise", exc |-> r.exc], tdy)]
                  ELSE [c EXCEPT !.p = c.p + 1])

UnderWay(c) == c.p > 0 /\ c.res = Pending

InitThreads ==
    /\ today = MkDate(2025, 1, 1)
    /\ text = ""
    /\ op = "init"
    /\ res = None
    /\ site = "-"
    /\ page = <<>>
    /\ ofertas = <<>>
    /\ results = <<>>
    /\ calls \in { <<Call(o1, t1), Call(o2, t2)>> :
                     o1 \in ThreadOps, t1 \in ThreadTexts,
                     o2 \in ThreadOps, t2 \in ThreadTexts }
    /\ pc = "threads"
    /\ browser = "none"
    /\ cls = ClassAttrs

\* thread k runs its call for one step
ThreadStep(k) ==
    /\ pc = "threads"
    /\ calls[k].res = Pending
    /\ calls' = [calls EXCEPT
                   ![k] = [CallAfterStep(calls[k], cls, today) EXCEPT
                             !.overlapped = @ \/ UnderWay(calls[3 - k])]]
    /\ cls' = (IF calls[k].p \in 1 .. NPatterns THEN AttrsAfterTurn(cls) ELSE cls)
    /\ UNCHANGED <<today, text, op, res, site, page, ofertas, results, pc, browser>>

Thread1Step == ThreadStep(1)

Thread2Step == ThreadStep(2)

NextThreads == Thread1Step \/ Thread2Step

SpecThreads == InitThreads /\ [][NextThreads]_vars

\* what the call returns when nothing else runs
Alone(c, tdy) ==
    CASE c.op = "parse_date" -> parse_date(c.text)
      [] c.op = "is_date_open" -> is_date_open(c.text, tdy)
      [] c.op = "get_days_until_deadline" -> get_days_until_deadline(c.text, tdy)

\* C21: no call modifies the pattern list or the month table, so a call
\* interleaved with another thread's call returns what the same call
\* returns alone, and two calls of the same operation with the same text on
\* the same day return the same value.
C21_CallsShareNoMutableState ==
    /\ cls = ClassAttrs
    /\ \A k \in 1 .. 2 :
          calls[k].res # Pending => calls[k].res = Alone(calls[k], today)
    /\ (/\ calls[1].res # Pending /\ calls[2].res # Pending
        /\ calls[1].op = calls[2].op /\ calls[1].text = calls[2].text)
          => calls[1].res = calls[2].res

\* two overlapping calls of get_days_until_deadline with the same text,
\* found by the second pattern after the first one failed, have returned
C21_Witness ==
    /\ calls[1].op = "get_days_until_deadline"
    /\ calls[2].op = "get_days_until_deadline"
    /\ calls[1].text = "32/12/2024 30/12/2024 31-12-2024 29/12/2024"
    /\ calls[2].text = calls[1].text
    /\ calls[1].overlapped /\ calls[2].overlapped
    /\ calls[1].res = PyInt(-1) /\ calls[2].res = PyInt(-1)

(***************************************************************************)
(* IISScraperRunner (main.py): the registry of scrapers and the loop of    *)
(* run_all_scrapers.  A scraper call is two steps, its start and its end,  *)
(* so that the order of calls and recordings can be read off the state.    *)
(***************************************************************************)
MaxRaised == 1

MaxNonEmpty == 1

\* self.scrapers, in insertion order: the name and the class of the instance
Registry ==
    << <<"CIBERISCIII", "CiberisciiiPlaywrightScraper">>,
       <<"FIMABIS", "FimabisScraper">>,
       <<"IGTP", "IgtpScraper">>,
       <<"IMIB", "ImibScraper">>,
       <<"IDIVAL", "IdivalScraper">>,
       <<"IBIS_Sevilla", "IbisSevillaScraper">>,
       <<"IBS_Granada", "IbsGranadaScraper">>,
       <<"IBSAL", "IbsalScraper">>,
       <<"Puerta_Hierro", "PuertaHierroScraper">>,
       <<"IDIBAPS", "IdibapsScraper">>,
       <<"IDIS_Santiago", "IdisSantiagoScraper">>,
       <<"IIS_La_Fe", "IisLaFeScraper">>,
       <<"IIS_Princesa", "IisPrincesaScraper">>,
       <<"IISGM", "IisgmScraper">>,
       <<"Biobizkaia", "BiobizkaiaScraper">> >>

Registered == { Registry[i][1] : i \in DOMAIN Registry }

\* the scraping entry points each class defines
PublicMethods(class) ==
    CASE class = "CiberisciiiPlaywrightScraper" -> {"scrape_ofertas"}
      [] class = "IdivalScraper" -> {"scrape_ofertas"}
      [] class = "IdibapsScraper" -> {"scrape", "scrape_async", "scrape_requests"}
      [] class = "ImibScraper" -> {"scrape", "scrape_async"}
      [] OTHER -> {"scrape"}

\* the method run_all_scrapers calls on the scraper registered as nombre
RunnerMethod(nombre) == IF nombre = "CIBERISCIII" THEN "scrape_ofertas" ELSE "scrape"

\* the lists a scraper may return
ScraperLists(nombre) ==
    { <<>>, <<Oferta(nombre, "Plaza de investigador", "", "", "Abierta", "", "")>> }

\* d[k] = v on a dict
Put(d, k, v) == [n \in (DOMAIN d) \cup {k} |-> IF n = k THEN v ELSE d[n]]

\* a handler that only prints the error
RecordFailureNothing(d, nombre) == d

\* `except Exception: self.results[nombre] = []`
RecordFailure(d, nombre) == Put(d, nombre, <<>>)

\* an iteration that passes over the entry after the one just run
NextEntrySkipping(done) == IF done = 0 THEN 1 ELSE done + 2

\* the entry `for nombre, scraper in self.scrapers.items()` takes after
\* `done` entries have been run
NextEntry(done) == done + 1

Raised(cs) == { i \in DOMAIN cs : cs[i].outcome = "raised" /\ cs[i].exc = "Exception" }

NonEmpty(cs) == { i \in DOMAIN cs : cs[i].outcome = "returned" /\ cs[i].ofertas # <<>> }

InitRunner ==
    /\ today \in ScrapeTodays
    /\ text = ""
    /\ op = "run_all_scrapers"
    /\ res = Pending
    /\ site = "-"
    /\ page = <<>>
    /\ ofertas = <<>>
    /\ results = <<>>
    /\ calls = <<>>
    /\ pc = "for"
    /\ browser = "none"
    /\ cls = ClassAttrs

\* the loop takes the next entry and calls its scraper
RunnerCall ==
    /\ pc = "for"
    /\ NextEntry(Len(calls)) \in DOMAIN Registry
    /\ site' = Registry[NextEntry(Len(calls))][1]
    /\ calls' = Append(calls, [nombre |-> Registry[NextEntry(Len(calls))][1],
                               class |-> Registry[NextEntry(Len(calls))][2],
                               method |-> RunnerMethod(Registry[NextEntry(Len(calls))][1]),
                               outcome |-> "pending", exc |-> "", ofertas |-> <<>>])
    /\ pc' = "try"
    /\ UNCHANGED <<today, text, op, res, page, ofertas, results, browser, cls>>

\* the scraper returns a list: it is recorded and shown
RunnerRecord ==
    /\ pc = "try"
    /\ calls[Len(calls)].method \in PublicMethods(calls[Len(calls)].class)
    /\ \E l \in ScraperLists(site) :
          /\ l # <<>> => Cardinality(NonEmpty(calls)) < MaxNonEmpty
          /\ ofertas' = l
          /\ results' = Put(results, site, l)
          /\ calls' = [calls EXCEPT ![Len(calls)] =
                          [@ EXCEPT !.outcome = "returned", !.ofertas = l]]
    /\ pc' = "for"
    /\ UNCHANGED <<today, text, op, res, site, page, browser, cls>>

\* the call raises, AttributeError when the class has no such method: the
\* handler records an empty list
RunnerExcept ==
    /\ pc = "try"
    /\ \E e \in {"AttributeError", "Exception"} :
          /\ e = "AttributeError" <=>
                calls[Len(calls)].method \notin PublicMethods(calls[Len(calls)].class)
          /\ e = "Exception" => Cardinality(Raised(calls)) < MaxRaised
          /\ calls' = [calls EXCEPT ![Len(calls)] =
                          [@ EXCEPT !.outcome = "raised", !.exc = e]]
    /\ results' = RecordFailure(results, site)
    /\ pc' = "for"
    /\ UNCHANGED <<today, text, op, res, site, page, ofertas, browser, cls>>

\* `return self.results` once the loop is exhausted
RunnerReturn ==
    /\ pc = "for"
    /\ NextEntry(Len(calls)) \notin DOMAIN Registry
    /\ res' = [kind |-> "results", v |-> results]
    /\ pc' = "done"
    /\ UNCHANGED <<today, text, op, site, page, ofertas, results, calls, browser, cls>>

NextRunner == RunnerCall \/ RunnerRecord \/ RunnerExcept \/ RunnerReturn

SpecRunner == InitRunner /\ [][NextRunner]_vars

\* every scraper call returns or raises and the loop goes on
SpecRunnerLive == SpecRunner /\ WF_vars(NextRunner)

RunnerSequential ==
    /\ Len(calls) <= Len(Registry)
    /\ \A i \in DOMAIN calls :
          /\ calls[i].nombre = Registry[i][1]
          /\ calls[i].outcome = "pending" => (i = Len(calls) /\ pc = "try")
          /\ i < Len(calls) => calls[i].nombre \in DOMAIN results
    /\ DOMAIN results \subseteq { calls[i].nombre : i \in DOMAIN calls }
    /\ pc = "done" => Len(calls) = Len(Registry)

\* C23: the registered scrapers are run one at a time in registration
\* order, each once, scraper k+1 starting only after the result of scraper
\* k has been recorded; as every call returns or raises, the run ends and
\* returns the results mapping.
C23_SequentialAndTerminates ==
    /\ []RunnerSequential
    /\ <>(pc = "done" /\ res = [kind |-> "results", v |-> results])

\* the last registered scraper is running and the fourteen before it have
\* their results recorded
C23_Witness ==
    /\ pc = "try"
    /\ Len(calls) = Len(Registry)
    /\ Cardinality(DOMAIN results) = Len(Registry) - 1
    /\ site = "Biobizkaia"

\* C24: the method the runner invokes exists on the class of every
\* registered scraper, so no site ends with an empty result only because
\* the method name is missing.
C24_InvokedMethodExists ==
    \A i \in DOMAIN calls :
        /\ calls[i].method \in PublicMethods(calls[i].class)
        /\ calls[i].exc # "AttributeError"

(***************************************************************************)
(* IISJobScraper._process_page_by_type (iisempleos/main.py): the dispatch  *)
(* to a site-specific scraper and the fallback to the generic scraper of   *)
(* the configured page type.                                               *)
(***************************************************************************)
\* the page types a generic scraper exists for
PageTypes == {"html_simple", "fundanet", "personio", "jsf", "html_dinamico"}

\* the names with a branch of their own: the class imported and the method
\* called on its instance
Dispatch ==
    << <<"CIBERISCIII", "CiberisciiiPlaywrightScraper", "scrape_ofertas">>,
       <<"FIMABIS", "FimabisScraper", "scrape_ofertas">>,
       <<"IGTP", "IgtpScraper", "scrape_ofertas">>,
       <<"IBIS_Sevilla", "IbisSevillaScraper", "scrape">>,
       <<"IBS_Granada", "IbsGranadaScraper", "scrape">>,
       <<"IBSAL", "IbsalScraper", "scrape">>,
       <<"IMIB", "ImibScraper", "scrape_ofertas">>,
       <<"IDIVAL", "IdivalScraper", "scrape_ofertas">> >>

HasBranch(nombre) == \E i \in DOMAIN Dispatch : Dispatch[i][1] = nombre

BranchOf(nombre) == Dispatch[CHOOSE i \in DOMAIN Dispatch : Dispatch[i][1] = nombre]

\* the entries of config/webs.json the dispatch is run on
ConfigEntries ==
    { [nombre |-> n, tipo |-> t] :
        n \in { Dispatch[i][1] : i \in DOMAIN Dispatch } \cup {"IIS_La_Fe"},
        t \in PageTypes \cup {"rss"} }

\* the lists the generic scraper of a page type may return
GenericLists(nombre, tipo) ==
    { <<>>, <<Oferta(nombre, "Convocatoria " \o tipo, "", "", "", "", "")>> }

\* the generic routine the if/elif chain picks for a page type
GenericRoutine(tipo) ==
    CASE tipo = "html_simple" -> "_scrape_html_simple"
      [] tipo = "fundanet" -> "_scrape_fundanet"
      [] tipo = "personio" -> "_scrape_personio"
      [] tipo = "jsf" -> "_scrape_jsf"
      [] tipo = "html_dinamico" -> "_scrape_html_dinamico"

Invoked(routine, outcome, exc) == [routine |-> routine, outcome |-> outcome, exc |-> exc]

\* a handler that prints the error and keeps the empty list
FallbackNone(tipo, cs, l) == [calls |-> cs, v |-> <<>>]

\* the if/elif chain over tipo, after the calls cs, when the generic scraper
\* would return l: the calls made and the list left in ofertas
Fallback(tipo, cs, l) ==
    IF tipo \in PageTypes
    THEN [calls |-> Append(cs, Invoked(GenericRoutine(tipo), "returned", "")), v |-> l]
    ELSE [calls |-> cs, v |-> <<>>]

InitDispatch ==
    /\ today \in ScrapeTodays
    /\ text = ""
    /\ op = "init"
    /\ res = Pending
    /\ site = "-"
    /\ page \in ConfigEntries
    /\ ofertas = <<>>
    /\ results = <<>>
    /\ calls = <<>>
    /\ pc = "-"
    /\ browser = "none"
    /\ cls = ClassAttrs

\* what every branch of the dispatch leaves: the calls made and the list
\* returned
Dispatched(f) ==
    /\ calls' = f.calls
    /\ ofertas' = f.v
    /\ res' = [kind |-> "ofertas", v |-> f.v]
    /\ site' = page.nombre
    /\ op' = "_process_page_by_type"
    /\ UNCHANGED <<today, text, page, results, pc, browser, cls>>

\* the specific scraper is imported and its method returns a list
DispatchSpecific ==
    /\ op = "init"
    /\ HasBranch(page.nombre)
    /\ BranchOf(page.nombre)[3] \in PublicMethods(BranchOf(page.nombre)[2])
    /\ \E l \in ScraperLists(page.nombre) :
          Dispatched([calls |-> <<Invoked(BranchOf(page.nombre)[2] \o "."
                                            \o BranchOf(page.nombre)[3], "returned", "")>>,
                      v |-> l])

\* the import of the specific scraper fails
DispatchImportError ==
    /\ op = "init"
    /\ HasBranch(page.nombre)
    /\ \E l \in GenericLists(page.nombre, page.tipo) :
          Dispatched(Fallback(page.tipo,
                              <<Invoked("import " \o BranchOf(page.nombre)[2],
                                        "raised", "ImportError")>>, l))

\* the specific scraper raises, AttributeError when its class has no such
\* method
DispatchException ==
    /\ op = "init"
    /\ HasBranch(page.nombre)
    /\ \E l \in GenericLists(page.nombre, page.tipo) :
          Dispatched(Fallback(page.tipo,
                              <<Invoked(BranchOf(page.nombre)[2] \o "."
                                            \o BranchOf(page.nombre)[3], "raised",
                                        IF BranchOf(page.nombre)[3]
                                              \in PublicMethods(BranchOf(page.nombre)[2])
                                        THEN "Exception" ELSE "AttributeError")>>, l))

\* a name without a branch goes to the generic scraper of its page type
DispatchGeneric ==
    /\ op = "init"
    /\ ~HasBranch(page.nombre)
    /\ \E l \in GenericLists(page.nombre, page.tipo) :
          Dispatched(Fallback(page.tipo, <<>>, l))

NextDispatch ==
    DispatchSpecific \/ DispatchImportError \/ DispatchException \/ DispatchGeneric

SpecDispatch == InitDispatch /\ [][NextDispatch]_vars

\* C26: when the site-specific scraper cannot be imported or raises, the
\* offers returned are those of the generic scraper of the configured page
\* type; the exception is not propagated, and a page type without a generic
\* scraper gives an empty list.
C26_FallbackToGenericByType ==
    op = "_process_page_by_type" =>
        /\ res.kind = "ofertas"
        /\ (page.tipo \notin PageTypes
               /\ \A i \in DOMAIN calls : calls[i].outcome = "raised") => res.v = <<>>
        /\ (calls # <<>> /\ calls[1].outcome = "raised" /\ page.tipo \in PageTypes) =>
              /\ Len(calls) = 2
              /\ calls[2].routine = "_scrape_" \o page.tipo
              /\ calls[2].outcome = "returned"
              /\ res.v \in GenericLists(page.nombre, page.tipo)

\* the IBSAL scraper raised on a jsf page and the offer of the jsf scraper
\* was returned
C26_Witness ==
    /\ op = "_process_page_by_type"
    /\ page = [nombre |-> "IBSAL", tipo |-> "jsf"]
    /\ calls[1] = Invoked("IbsalScraper.scrape", "raised", "Exception")
    /\ res.v # <<>>

(***************************************************************************)
(* The Playwright-based scrapers: CiberisciiiPlaywrightScraper             *)
(* .scrape_ofertas, IdibapsScraper.scrape, IdivalScraper.scrape_ofertas    *)
(* and ImibScraper.scrape.  Inside `async with async_playwright()` every   *)
(* awaited call is a step that may raise.  The site is described by        *)
(* whether Playwright could be imported, whether the caller is already     *)
(* inside a running event loop, the offers the rendered page yields and    *)
(* the offers the requests-based extraction yields.                        *)
(***************************************************************************)
PlaywrightSites == {"Ciberisciii", "Idibaps", "Idival", "Imib"}

\* the awaited calls of the block, in program order
PwSteps == <<"chromium.launch", "browser.new_context", "context.new_page",
             "page.goto", "extract">>

\* the calls that stand inside `try: ... finally: await browser.close()`
InTry == {"page.goto", "extract"}

PwOfertas(s) ==
    { <<>>,
      <<Oferta(s, "Investigador postdoctoral", "", "", "Abierta", "/o/1", "")>>,
      <<Oferta(s, "Investigador postdoctoral", "", "", "Abierta", "/o/1", ""),
        Oferta(s, "INVESTIGADOR POSTDOCTORAL", "", "", "Abierta", "/o/1", "")>> }

PwPages(s) ==
    { [available |-> a, loop_running |-> r, rows |-> w, requests |-> q] :
        a \in BOOLEAN, r \in BOOLEAN, w \in PwOfertas(s), q \in PwOfertas(s) }

\* the deduplication that follows the block
PwDedup(s, ofs) ==
    CASE s = "Ciberisciii" -> Ciberisciii_remove_duplicates(ofs)
      [] s = "Idibaps" -> Unique(Idibaps_key, ofs)
      [] s = "Idival" -> Unique(Idival_key, ofs)
      [] s = "Imib" -> ofs

\* the synchronous entry points wrap the coroutine in asyncio.run; the
\* CIBERISCIII coroutine is awaited by its caller
UsesAsyncioRun(s) == s \in {"Idibaps", "Idival", "Imib"}

\* what the entry point returns without opening Playwright, "enter" when
\* it goes on to the Playwright block
BeforePlaywright(s, pg) ==
    CASE s = "Ciberisciii" ->
            IF ~pg.available THEN [kind |-> "ofertas", v |-> <<>>]
            ELSE [kind |-> "enter"]
      [] s = "Idibaps" ->
            IF pg.loop_running THEN [kind |-> "raise", exc |-> "RuntimeError"]
            ELSE IF ~pg.available
                 THEN [kind |-> "ofertas", v |-> Unique(Idibaps_key, pg.requests)]
                 ELSE [kind |-> "enter"]
      [] s = "Idival" ->
            IF ~pg.available THEN [kind |-> "ofertas", v |-> pg.requests]
            ELSE IF pg.loop_running THEN [kind |-> "raise", exc |-> "RuntimeError"]
            ELSE [kind |-> "enter"]
      [] s = "Imib" ->
            IF pg.requests # <<>> THEN [kind |-> "ofertas", v |-> pg.requests]
            ELSE IF pg.loop_running THEN [kind |-> "raise", exc |-> "RuntimeError"]
            ELSE IF ~pg.available THEN [kind |-> "ofertas", v |-> <<>>]
            ELSE [kind |-> "enter"]

\* the routines that ran before the Playwright block
RoutinesBefore(s, pg) ==
    CASE s = "Idibaps" /\ ~pg.loop_running /\ ~pg.available ->
            <<Invoked("scrape_async", "returned", ""), Invoked("scrape_requests", "returned", "")>>
      [] s = "Imib" -> <<Invoked("_scrape_requests", "returned", "")>>
      [] s = "Idival" /\ ~pg.available -> <<Invoked("fetch", "returned", "")>>
      [] OTHER -> <<>>

\* `except Exception as e: pass` of the CIBERISCIII block
SwallowedInTry(s) == s = "Ciberisciii"

InitPlaywright ==
    /\ today \in ScrapeTodays
    /\ text = ""
    /\ op = "init"
    /\ res = Pending
    /\ site \in PlaywrightSites
    /\ page \in PwPages(site)
    /\ ofertas = <<>>
    /\ results = <<>>
    /\ calls = <<>>
    /\ pc = "start"
    /\ browser = "none"
    /\ cls = ClassAttrs

\* the entry point returns or raises without opening Playwright
PwWithout ==
    /\ pc = "start"
    /\ BeforePlaywright(site, page).kind # "enter"
    /\ res' = BeforePlaywright(site, page)
    /\ calls' = RoutinesBefore(site, page)
    /\ pc' = "done"
    /\ op' = "scrape"
    /\ UNCHANGED <<today, text, site, page, ofertas, results, browser, cls>>

\* the entry point reaches `async with async_playwright() as p`
PwEnter ==
    /\ pc = "start"
    /\ BeforePlaywright(site, page).kind = "enter"
    /\ calls' = RoutinesBefore(site, page)
    /\ pc' = PwSteps[1]
    /\ op' = "scrape"
    /\ UNCHANGED <<today, text, res, site, page, ofertas, results, browser, cls>>

PwIndex(step) == CHOOSE i \in DOMAIN PwSteps : PwSteps[i] = step

\* the awaited call at pc succeeds
PwAwait ==
    /\ pc \in { PwSteps[i] : i \in DOMAIN PwSteps }
    /\ calls' = Append(calls, Invoked(pc, "returned", ""))
    /\ browser' = (IF pc = "chromium.launch" THEN "open" ELSE browser)
    /\ ofertas' = (IF pc = "extract" THEN page.rows ELSE ofertas)
    /\ pc' = (IF PwIndex(pc) < Len(PwSteps) THEN PwSteps[PwIndex(pc) + 1] ELSE "finally")
    /\ UNCHANGED <<today, text, op, res, site, page, results, cls>>

\* the awaited call at pc raises: inside the try the finally clause runs
\* next, outside it the exception leaves the coroutine and the entry point
PwRaise ==
    /\ pc \in { PwSteps[i] : i \in DOMAIN PwSteps }
    /\ calls' = Append(calls, Invoked(pc, "raised", "Error"))
    /\ IF pc \in InTry
       THEN /\ pc' = "finally"
            /\ res' = res
       ELSE /\ pc' = "done"
            /\ res' = [kind |-> "raise", exc |-> "Error"]
    /\ UNCHANGED <<today, text, op, site, page, ofertas, results, browser, cls>>

\* `finally: await browser.close()`, then the pending exception leaves the
\* entry point or the deduplicated offers are returned
PwFinally ==
    /\ pc = "finally"
    /\ browser' = "closed"
    /\ calls' = Append(calls, Invoked("browser.close", "returned", ""))
    /\ res' = (IF calls[Len(calls)].outcome = "raised" /\ ~SwallowedInTry(site)
               THEN [kind |-> "raise", exc |-> calls[Len(calls)].exc]
               ELSE [kind |-> "ofertas", v |-> PwDedup(site, ofertas)])
    /\ pc' = "done"
    /\ UNCHANGED <<today, text, op, site, page, ofertas, results, cls>>

NextPlaywright == PwWithout \/ PwEnter \/ PwAwait \/ PwRaise \/ PwFinally

SpecPlaywright == InitPlaywright /\ [][NextPlaywright]_vars

\* a Playwright call of the scrape has raised
PlaywrightFailed == \E i \in DOMAIN calls : calls[i].outcome = "raised"

\* C25: IdibapsScraper.scrape returns the offers of scrape_requests whenever
\* the Playwright attempt is unavailable or fails; the failure does not
\* reach the caller.
C25_IdibapsFallsBackToRequests ==
    (site = "Idibaps" /\ pc = "done" /\ ~page.loop_running
       /\ (~page.available \/ PlaywrightFailed)) =>
        /\ res.kind = "ofertas"
        /\ \E i \in DOMAIN calls : calls[i].routine = "scrape_requests"

LaFePaginations ==
    { <<>>, <<"1", "2">>, <<"1", "2", "3", "Siguiente">>, <<"«", "1", "2", "5", "»">>,
      <<"-1", "">> }

\* what a fetched page may hold
LaFeSoups ==
    { <<>>,
      <<Elem("Contratación de un técnico", "Abierta", "Abierta hasta 15/03/2026",
             "/es/talento/empleo/13/")>>,
      <<Elem("Personal investigador", "ABIERTA", "Del 15/03/2026 al 01/12/2025",
             "https://www.iislafe.es/es/talento/empleo/14/"),
        Elem("Contratación de un técnico", "Cerrada", "", "/es/talento/empleo/17/")>> }

AllDigits(t) == t # "" /\ \A i \in 1 .. Len(t) : IsDigit(Ch(t, i))

\* int(link.get_text(strip=True)): the number, or ValueError
LinkInt(t) ==
    With(Strip(t), LAMBDA n :
        IF AllDigits(n) THEN PyInt(ToInt(n))
        ELSE IF Len(n) > 1 /\ Ch(n, 1) \in {"-", "+"} /\ AllDigits(SubSeq(n, 2, Len(n)))
             THEN PyInt(IF Ch(n, 1) = "-" THEN 0 - ToInt(SubSeq(n, 2, Len(n)))
                        ELSE ToInt(SubSeq(n, 2, Len(n))))
             ELSE [kind |-> "exc", exc |-> "ValueError"])

RECURSIVE LaFe_max_pages(_, _, _)
\* the loop over the pagination links, from link i on
LaFe_max_pages(links, i, max_pages) ==
    IF i > Len(links) THEN max_pages
    ELSE LaFe_max_pages(links, i + 1,
             IF LinkInt(links[i]).kind = "int" /\ LinkInt(links[i]).v > max_pages
             THEN LinkInt(links[i]).v ELSE max_pages)

\* range(1, min(4, max_pages + 1))
LaFe_range(max_pages) == 1 .. ((IF 4 < max_pages + 1 THEN 4 ELSE max_pages + 1) - 1)

\* a handler that discards what the earlier pages gave
LaFeAfterExceptionEmpty(ofs) == <<>>

\* `except Exception: print(...)`, then `return ofertas`
LaFeAfterException(ofs) == ofs

PageCall(k, outcome, ofs) == [page |-> k, outcome |-> outcome, ofertas |-> ofs]

InitLaFe ==
    /\ today \in ScrapeTodays
    /\ text = ""
    /\ op = "init"
    /\ res = Pending
    /\ site = "IisLaFe"
    /\ page \in LaFePaginations
    /\ ofertas = <<>>
    /\ results = <<>>
    /\ calls = <<>>
    /\ pc = "get"
    /\ browser = "none"
    /\ cls = ClassAttrs

\* the first request succeeds and the page count is read
LaFeFirstPage ==
    /\ pc = "get"
    /\ pc' = "for"
    /\ op' = "scrape"
    /\ UNCHANGED <<today, text, res, site, page, ofertas, results, calls, browser, cls>>

\* the first request fails: the handler runs and the empty list is returned
LaFeFirstPageFails ==
    /\ pc = "get"
    /\ pc' = "done"
    /\ op' = "scrape"
    /\ res' = [kind |-> "ofertas", v |-> LaFeAfterException(ofertas)]
    /\ UNCHANGED <<today, text, site, page, ofertas, results, calls, browser, cls>>

\* one turn of the loop: the page is fetched (the first is at hand) and its
\* offers are appended
LaFePage ==
    /\ pc = "for"
    /\ Len(calls) + 1 \in LaFe_range(LaFe_max_pages(page, 1, 1))
    /\ \E soup \in LaFeSoups :
          /\ calls' = Append(calls, PageCall(Len(calls) + 1, "returned",
                                             IisLaFe_scrape_page(soup)))
          /\ ofertas' = ofertas \o IisLaFe_scrape_page(soup)
    /\ UNCHANGED <<today, text, op, res, site, page, results, pc, browser, cls>>

\* fetching or parsing the page of this turn raises: the handler runs and
\* the offers gathered so far are returned
LaFePageFails ==
    /\ pc = "for"
    /\ Len(calls) + 1 \in LaFe_range(LaFe_max_pages(page, 1, 1))
    /\ calls' = Append(calls, PageCall(Len(calls) + 1, "raised", <<>>))
    /\ res' = [kind |-> "ofertas", v |-> LaFeAfterException(ofertas)]
    /\ pc' = "done"
    /\ UNCHANGED <<today, text, op, site, page, ofertas, results, browser, cls>>

\* the loop is exhausted
LaFeReturn ==
    /\ pc = "for"
    /\ Len(calls) + 1 \notin LaFe_range(LaFe_max_pages(page, 1, 1))
    /\ res' = [kind |-> "ofertas", v |-> ofertas]
    /\ pc' = "done"
    /\ UNCHANGED <<today, text, op, site, page, ofertas, results, calls, browser, cls>>

NextLaFe == LaFeFirstPage \/ LaFeFirstPageFails \/ LaFePage \/ LaFePageFails \/ LaFeReturn

SpecLaFe == InitLaFe /\ [][NextLaFe]_vars

\* the page count the pagination shows: the largest number among the link
\* texts, 1 when there is none
DetectedPages ==
    Max({1} \cup { LinkInt(page[i]).v :
                     i \in { j \in DOMAIN page : LinkInt(page[j]).kind = "int" } })

RECURSIVE Gathered(_, _)
\* the offers of the pages processed, in page order
Gathered(cs, i) == IF i > Len(cs) THEN <<>> ELSE cs[i].ofertas \o Gathered(cs, i + 1)

\* C28: the pages processed are 1, 2, ... up to min(3, detected page
\* count), in increasing order; when a page fails the scrape still returns
\* the offers of the pages processed before it, and never raises.
C28_PagesInOrderAndPartialResult ==
    site = "IisLaFe" /\ op = "scrape" =>
        /\ \A i \in DOMAIN calls : calls[i].page = i
        /\ Len(calls) <= Min({3, DetectedPages})
        /\ \A i \in DOMAIN calls : calls[i].outcome = "raised" => (i = Len(calls) /\ pc = "done")
        /\ pc = "done" =>
              /\ res = [kind |-> "ofertas", v |-> Gathered(calls, 1)]
              /\ (calls = <<>> \/ calls[Len(calls)].outcome = "returned")
                    => Len(calls) \in {0, Min({3, DetectedPages})}

\* five pages detected, two pages gave an offer each and the third failed:
\* the two offers are returned
C28_Witness ==
    /\ site = "IisLaFe" /\ pc = "done"
    /\ DetectedPages = 5
    /\ Len(calls) = 3
    /\ calls[3].outcome = "raised"
    /\ Len(res.v) = 2

\* C29: parse_date and extract_dates_from_text agree: a date parse_date
\* finds in the text is the date of one of the entries extracted from the
\* same text, and parse_date applied to the substring of an entry gives the
\* date of that entry.
C29_ParseAndExtractAgree ==
    op = "extract_dates_from_text" =>
        With(parse_date(text), LAMBDA d :
            /\ IsDate(d) => \E i \in DOMAIN res.v : res.v[i][2] = d
            /\ \A i \in DOMAIN res.v : parse_date(res.v[i][1]) = res.v[i][2])

\* a text with month words in capitals and abbreviations: parse_date finds
\* the first date and the extraction returns it among several entries
C29_Witness ==
    /\ op = "extract_dates_from_text"
    /\ text = "Del 1 DE Ene DE 2025 al 15 Feb 2025"
    /\ IsDate(parse_date(text))
    /\ Len(res.v) >= 2
    /\ \E i \in DOMAIN res.v : res.v[i][2] # parse_date(text)

\* C30: the output of a deduplication step holds no two offers with the
\* same key, every key of the input is the key of an output offer, the step
\* applied to its own output returns it unchanged, and every offer of the
\* output is an offer of the input, unmodified.
C30_DedupStepProperties ==
    op = "dedup" =>
        With([i \in DOMAIN res.v |-> KeyOf(site, res.v[i])], LAMBDA out :
        With({ KeyOf(site, ofertas[i]) : i \in DOMAIN ofertas }, LAMBDA inkeys :
            /\ \A i, j \in DOMAIN out : i # j => out[i] # out[j]
            /\ { out[i] : i \in DOMAIN out } = inkeys
            /\ DedupOf(site, res.v) = res.v
            /\ \A i \in DOMAIN res.v : \E j \in DOMAIN ofertas : res.v[i] = ofertas[j]))

\* IDIVAL: three offers, the first and the third with the same lowercased
\* title and link, the second differing by a trailing space only: two are
\* kept
C30_Witness ==
    /\ op = "dedup"
    /\ site = "Idival"
    /\ Len(ofertas) = 3
    /\ ofertas[1].titulo = "Beca" /\ ofertas[2].titulo = "BECA " /\ ofertas[3].titulo = "Beca"
    /\ ofertas[1].enlace = ofertas[3].enlace /\ ofertas[1].enlace = ofertas[2].enlace
    /\ ofertas[1] # ofertas[3]
    /\ res.v = <<ofertas[1], ofertas[2]>>

====
